---- MODULE Spec2Model ----
(***************************************************************************)
(* Block settlement of routes/consolidated_2.py: the storage buffer        *)
(* (Battery_Status), the banking and adjustment decisions and the          *)
(* consolidated orchestrator.                                              *)
(*                                                                         *)
(* Units.  Energy quantities are whole kWh, rates are paise per kWh (the   *)
(* code rounds rates to 2 decimals) and costs are paise, so every round()  *)
(* of the code on these values is exact.  A block timestamp is the minute  *)
(* of the day of its start (09:00 = 540).                                  *)
(***************************************************************************)
EXTENDS Integers, Sequences, FiniteSets, TLC

VARIABLES Battery_Status, bank_adj_coll, prefix_cache, lastRun, pc, local,
          DemandOutput

vars == <<Battery_Status, bank_adj_coll, prefix_cache, lastRun, pc, local, DemandOutput>>

\* ------------------------------------------------------------------ bounds
NumBlocks == 2
\* requests a worker serves in the concurrent specification
MaxRequests == 1
\* plants of a block in the prefix-pricing specification
MaxPlants == 3
\* the priced quantities of the prefix-pricing specification, in steps of 125 kWh
MaxQuantum == 13
\* DC and SG of a plant reading, in MW, in the plant-reading specification
MaxMW == 3

\* ------------------------------------------------------- program constants
\* "Units_Available": 2823529.412 (whole kWh here)
TOTAL_CAPACITY == 2823529
_PREFIX_CACHE_MAX == 256
\* battery_charge_rate=4.0 Rs/kWh, in paise
BATTERY_CHARGE_RATE == 400
\* timedelta(minutes=15)
BLOCK_MINUTES == 15
\* the first block of the model: 08:45, the last block before the morning window
FirstBlock == 9 * 60 - BLOCK_MINUTES

None == "None"

Blocks == {FirstBlock + BLOCK_MINUTES * i : i \in 0..(NumBlocks - 1)}
\* the two server processes of the concurrent specification
Workers == {"A", "B"}

Max(a, b) == IF a >= b THEN a ELSE b
Min(a, b) == IF a <= b THEN a ELSE b

\* round(n / d, 0) of Python 3 for n >= 0, d > 0: round half to even
RoundDiv(n, d) ==
    LET q == n \div d
        r == n % d
    IN IF 2 * r < d THEN q
       ELSE IF 2 * r > d THEN q + 1
       ELSE IF q % 2 = 0 THEN q ELSE q + 1

RECURSIVE SumSeq(_)
SumSeq(s) == IF s = <<>> THEN 0 ELSE Head(s) + SumSeq(Tail(s))

Reverse(s) == [i \in 1..Len(s) |-> s[Len(s) + 1 - i]]

\* ------------------------------------------------------------ DSM window
\* Faulty variant (C18): the windows closed at their ends
in_dsm_window_closed(ts) ==
    LET t == ts % 1440
    IN (540 <= t /\ t <= 660) \/ (1080 <= t /\ t <= 1200)

\* ts.time() is the minute of the day; time(9, 0) = 540, time(11, 0) = 660,
\* time(18, 0) = 1080, time(20, 0) = 1200
in_dsm_window(ts) ==
    LET t == ts % 1440
    IN (540 <= t /\ t < 660) \/ (1080 <= t /\ t < 1200)

\* ------------------------------------------------- plants and prefix sums
\* Faulty variant (C19): a Thermal plant treated as any other plant
PlantRowAnyFuel(name, fuel, dc, sg, vc) ==
    LET bd_units == IF dc > sg THEN (dc - sg) * 250 ELSE 0
    IN [Plant_Name |-> name, Fuel_Type |-> fuel, DC |-> dc, SG |-> sg, VC |-> vc,
        backdown_units |-> bd_units, backdown_cost |-> bd_units * vc]

\* One Plant_Generation row after fetch_plants_prepare_prefix: backdown by fuel type
PlantRow(name, fuel, dc, sg, vc) ==
    LET bd_units == IF fuel = "Thermal"
                    THEN (IF dc > sg /\ sg > 0 THEN (dc - sg) * 250 ELSE 0)
                    ELSE (IF dc > sg THEN (dc - sg) * 250 ELSE 0)
    IN [Plant_Name |-> name, Fuel_Type |-> fuel, DC |-> dc, SG |-> sg, VC |-> vc,
        backdown_units |-> bd_units, backdown_cost |-> bd_units * vc]

\* cum_units / cum_cost of the cache entry
CumUnits(plants_asc) ==
    [i \in 1..Len(plants_asc) |->
        SumSeq([j \in 1..i |-> plants_asc[j].backdown_units])]
CumCost(plants_asc) ==
    [i \in 1..Len(plants_asc) |->
        SumSeq([j \in 1..i |-> plants_asc[j].backdown_units * plants_asc[j].VC])]

PrefixEntry(plants_asc) ==
    [vc |-> [i \in 1..Len(plants_asc) |-> plants_asc[i].VC],
     bu |-> [i \in 1..Len(plants_asc) |-> plants_asc[i].backdown_units],
     cum_units |-> CumUnits(plants_asc),
     cum_cost |-> CumCost(plants_asc),
     plants_asc |-> plants_asc,
     plants_desc |-> Reverse(plants_asc)]

\* ---------------------------------------------------------- prefix cache
\* prefix_cache is the OrderedDict as a sequence of [ts, entry], oldest first.
CacheHas(cache, ts) == \E i \in 1..Len(cache) : cache[i].ts = ts
CacheIndex(cache, ts) == CHOOSE i \in 1..Len(cache) : cache[i].ts = ts
CacheRemove(cache, ts) == SelectSeq(cache, LAMBDA e : e.ts # ts)

_cache_put(cache, ts, entry) ==
    LET put == Append(CacheRemove(cache, ts), [ts |-> ts, entry |-> entry])
    IN IF Len(put) > _PREFIX_CACHE_MAX THEN Tail(put) ELSE put

\* _cache_get: the entry (or None) and the reordered cache
_cache_get_entry(cache, ts) ==
    IF CacheHas(cache, ts) THEN cache[CacheIndex(cache, ts)].entry ELSE None
\* Faulty variant (C24): a read leaves the order alone (first in, first out)
_cache_get_cache_fifo(cache, ts) ==
    cache

_cache_get_cache(cache, ts) ==
    IF CacheHas(cache, ts)
    THEN Append(CacheRemove(cache, ts), cache[CacheIndex(cache, ts)])
    ELSE cache

\* bisect_left(a, q): the number of elements of the ascending list a that are < q
bisect_left(a, q) == Cardinality({i \in 1..Len(a) : a[i] < q})

\* Faulty variant (C11): the partial quantity priced at the rate of the last
\* plant filled whole instead of the plant being filled
calculate_weighted_average_for_quantum_prefix_prev(q, cached) ==
    IF q <= 0 THEN [wavg |-> 0, cost |-> 0, units |-> 0]
    ELSE
      LET k == bisect_left(cached.cum_units, q)
          n == Len(cached.cum_units)
          total_cost ==
            IF k = 0 THEN q * cached.vc[1]
            ELSE IF k >= n
                 THEN cached.cum_cost[n] + (q - cached.cum_units[n]) * cached.vc[n]
                 ELSE cached.cum_cost[k] + (q - cached.cum_units[k]) * cached.vc[k]
      IN [wavg |-> RoundDiv(total_cost, q), cost |-> total_cost, units |-> q]

\* calculate_weighted_average_for_quantum_prefix: (weighted_avg, total_cost, q)
calculate_weighted_average_for_quantum_prefix(q, cached) ==
    IF q <= 0 THEN [wavg |-> 0, cost |-> 0, units |-> 0]
    ELSE
      LET k == bisect_left(cached.cum_units, q)
          n == Len(cached.cum_units)
          total_cost ==
            IF k = 0 THEN q * cached.vc[1]
            ELSE IF k >= n
                 THEN cached.cum_cost[n] + (q - cached.cum_units[n]) * cached.vc[n]
                 ELSE cached.cum_cost[k] + (q - cached.cum_units[k]) * cached.vc[k + 1]
      IN [wavg |-> RoundDiv(total_cost, q), cost |-> total_cost, units |-> q]

\* allocate_used_for_quantum_desc: usage filled cheapest-first, returned VC DESC
RECURSIVE FillUsage(_, _)
FillUsage(plants_asc, remaining) ==
    IF plants_asc = <<>> THEN <<>>
    ELSE LET p == Head(plants_asc)
             use == Min(p.backdown_units, remaining)
         IN <<[Plant_Name |-> p.Plant_Name, Fuel_Type |-> p.Fuel_Type,
               DC |-> p.DC, SG |-> p.SG, VC |-> p.VC,
               backdown_units |-> p.backdown_units, backdown_cost |-> p.backdown_cost,
               used_for_quantum |-> use]>>
            \o FillUsage(Tail(plants_asc), remaining - use)

allocate_used_for_quantum_desc(cached, quantum) ==
    Reverse(FillUsage(cached.plants_asc, Max(0, quantum)))

\* sorted(rows, key=VC): stable insertion sort
RECURSIVE InsertByVC(_, _)
InsertByVC(sorted, r) ==
    IF sorted = <<>> THEN <<r>>
    ELSE IF Head(sorted).VC <= r.VC THEN <<Head(sorted)>> \o InsertByVC(Tail(sorted), r)
         ELSE <<r>> \o sorted
RECURSIVE SortedByVC(_)
SortedByVC(rows) ==
    IF rows = <<>> THEN <<>>
    ELSE InsertByVC(SortedByVC(SubSeq(rows, 1, Len(rows) - 1)), rows[Len(rows)])

\* compute_totals: mod is Demand_Output.Last_Price, else the VC of plants_list[0]
compute_totals(plants_list, last_price) ==
    LET t_units == SumSeq([i \in 1..Len(plants_list) |-> plants_list[i].backdown_units])
        t_cost == SumSeq([i \in 1..Len(plants_list) |-> plants_list[i].backdown_cost])
    IN [t_units |-> t_units,
        t_cost |-> t_cost,
        wav |-> IF t_units > 0 THEN RoundDiv(t_cost, t_units) ELSE 0,
        mod |-> IF last_price # None THEN last_price
                ELSE IF plants_list # <<>> THEN plants_list[1].VC ELSE 0]

\* -------------------------------------------------------- Battery_Status
\* fetch_battery_status: the latest document strictly before ts, else the
\* synthetic 'previous block' document
DocsBefore(coll, ts) == {d \in coll : d.Timestamp < ts}

\* Faulty variant (C3): the oldest earlier document instead of the latest
fetch_battery_status_oldest(coll, ts) ==
    IF DocsBefore(coll, ts) = {}
    THEN [Timestamp |-> ts - BLOCK_MINUTES, Units_Available |-> TOTAL_CAPACITY,
          Cycle |-> "NO_CHARGE"]
    ELSE CHOOSE d \in DocsBefore(coll, ts) :
            \A e \in DocsBefore(coll, ts) : d.Timestamp <= e.Timestamp

\* Faulty variant (C4, C6): the document at ts when there is one, else the
\* latest before (the rule of the older Routes/consolidated.py)
fetch_battery_status_at_or_before(coll, ts) ==
    IF {d \in coll : d.Timestamp <= ts} = {}
    THEN [Timestamp |-> ts - BLOCK_MINUTES, Units_Available |-> TOTAL_CAPACITY,
          Cycle |-> "NO_CHARGE"]
    ELSE CHOOSE d \in {d \in coll : d.Timestamp <= ts} :
            \A e \in {e \in coll : e.Timestamp <= ts} : e.Timestamp <= d.Timestamp

fetch_battery_status(coll, ts) ==
    IF DocsBefore(coll, ts) = {}
    THEN [Timestamp |-> ts - BLOCK_MINUTES, Units_Available |-> TOTAL_CAPACITY,
          Cycle |-> "NO_CHARGE"]
    ELSE CHOOSE d \in DocsBefore(coll, ts) :
            \A e \in DocsBefore(coll, ts) : e.Timestamp <= d.Timestamp

\* Faulty variant (C9): the two directions exchanged
NewHeadroomInverted(headroom, qty, cycle) ==
    IF cycle = "CHARGE" THEN headroom + qty
    ELSE IF cycle = "USE" THEN Max(headroom - qty, 0)
    ELSE headroom

\* the headroom arithmetic of upsert_battery_status (capacity_limit is never passed)
NewHeadroom(headroom, qty, cycle) ==
    IF cycle = "CHARGE" THEN Max(headroom - qty, 0)
    ELSE IF cycle = "USE" THEN headroom + qty
    ELSE headroom

\* Faulty variant (C7): an insert where the upsert is
insert_one(coll, ts, fields) == coll \cup {fields @@ [Timestamp |-> ts]}

\* update_one({"Timestamp": ts}, {"$set": fields}, upsert=True)
update_one_upsert(coll, ts, fields) ==
    IF \E d \in coll : d.Timestamp = ts
    THEN LET d == CHOOSE d \in coll : d.Timestamp = ts
         IN (coll \ {d}) \cup {fields @@ d}
    ELSE coll \cup {fields @@ [Timestamp |-> ts]}

\* Faulty variant (C29): the write of a block also drops the records of the
\* blocks after it
upsert_battery_status_cascade(coll, ts, qty, cycle) ==
    LET prev == fetch_battery_status(coll, ts)
        headroom == NewHeadroom(prev.Units_Available, qty, cycle)
    IN {d \in update_one_upsert(coll, ts, [Units_Available |-> headroom, Cycle |-> cycle]) :
           d.Timestamp <= ts}

upsert_battery_status(coll, ts, qty, cycle) ==
    LET prev == fetch_battery_status(coll, ts)
        headroom == NewHeadroom(prev.Units_Available, qty, cycle)
    IN update_one_upsert(coll, ts, [Units_Available |-> headroom, Cycle |-> cycle])

\* ---------------------------------------------------------- decide_banking
\* The returned record carries the response fields and, as `qty`, the
\* quantity handed to the one upsert_battery_status call of the branch taken.
BankOut(cost, dsm, cycle, after, wavg, mp, usage, qty) ==
    [banking_cost |-> cost, DSM_units |-> dsm, cycle |-> cycle,
     units_available_after |-> after, weighted_average |-> wavg,
     market_purchase |-> mp, plants_with_usage |-> usage, qty |-> qty]

\* Faulty variant (C8): a partial charge that reports every banked unit as DSM
ChargeBranchNoSpill(banked_units, units_available_before, weighted_average_mod, zeros) ==
    IF units_available_before = 0
    THEN BankOut(0, banked_units, "CHARGE", units_available_before,
                 weighted_average_mod, 0, zeros, 0)
    ELSE IF units_available_before > banked_units
    THEN BankOut(0, 0, "CHARGE", units_available_before - banked_units,
                 weighted_average_mod, 0, zeros, banked_units)
    ELSE BankOut(0, banked_units, "CHARGE", 0,
                 weighted_average_mod, 0, zeros, units_available_before)

\* lines 338-353: surplus covers the banked units outside the DSM windows
ChargeBranch(banked_units, units_available_before, weighted_average_mod, zeros) ==
    IF units_available_before = 0
    THEN BankOut(0, banked_units, "CHARGE", units_available_before,
                 weighted_average_mod, 0, zeros, 0)
    ELSE IF units_available_before > banked_units
    THEN BankOut(0, 0, "CHARGE", units_available_before - banked_units,
                 weighted_average_mod, 0, zeros, banked_units)
    ELSE BankOut(0, banked_units - units_available_before, "CHARGE", 0,
                 weighted_average_mod, 0, zeros, units_available_before)

decide_banking(timestamp, banked_units, scheduled_generation, drawl, weighted_average_mod, dam, rtm, total_backdown_units, total_backdown_cost, units_available_before, cached) ==
    LET s_d == Max(scheduled_generation - drawl, 0)
        zeros == allocate_used_for_quantum_desc(cached, 0)
    IN
    IF banked_units <= 0
    THEN BankOut(0, 0, "NO_CHARGE", units_available_before, weighted_average_mod,
                 0, zeros, 0)
    ELSE IF s_d > 0
    THEN IF s_d >= banked_units
         THEN IF ~in_dsm_window(timestamp)
              THEN ChargeBranch(banked_units, units_available_before,
                                weighted_average_mod, zeros)
              ELSE BankOut(0, banked_units, "NO_CHARGE", units_available_before,
                           weighted_average_mod, 0, zeros, banked_units)
         ELSE LET balanced_units == banked_units - s_d
                  w == calculate_weighted_average_for_quantum_prefix(balanced_units, cached)
                  total_backdown_units_used == w.units
                  market_purchase ==
                      IF balanced_units >= total_backdown_units_used
                      THEN balanced_units - total_backdown_units_used ELSE 0
                  banking_cost ==
                      IF balanced_units >= total_backdown_units_used
                      THEN w.cost + market_purchase * Min(dam, rtm) ELSE w.cost
              IN BankOut(banking_cost, 0, "NO_CHARGE", units_available_before, w.wavg,
                         market_purchase,
                         allocate_used_for_quantum_desc(cached, balanced_units),
                         banked_units)
    ELSE IF total_backdown_units < banked_units
         THEN LET market_purchase == banked_units - total_backdown_units
              IN BankOut(total_backdown_cost + market_purchase * Min(dam, rtm), 0,
                         "NO_CHARGE", units_available_before, weighted_average_mod,
                         market_purchase,
                         allocate_used_for_quantum_desc(cached, total_backdown_units),
                         banked_units)
         ELSE LET w == calculate_weighted_average_for_quantum_prefix(banked_units, cached)
              IN BankOut(w.wavg * banked_units, 0, "NO_CHARGE", units_available_before,
                         w.wavg, 0,
                         allocate_used_for_quantum_desc(cached, banked_units),
                         banked_units)

\* ------------------------------------------------------ compute_adjustment
\* units_read is the Units_Available the function fetched; battery_units the
\* chargeable headroom it derives from it.
\* Faulty variant (C5): the whole capacity taken as dischargeable
AdjBatteryUnitsWhole(units_read) == TOTAL_CAPACITY

AdjBatteryUnits(units_read) ==
    IF units_read > 0 THEN TOTAL_CAPACITY - units_read ELSE TOTAL_CAPACITY

\* `write` tells whether upsert_battery_status is called, with (qty, cycle)
AdjOut(cost, used, balance, after, highest, write, qty, cycle, units_read) ==
    [adjustment_charges |-> cost, battery_used |-> used, balance_units |-> balance,
     units_available_after |-> after, highest_rate |-> highest,
     battery_charge_rate |-> BATTERY_CHARGE_RATE,
     write |-> write, qty |-> qty, cycle |-> cycle, units_read |-> units_read]

compute_adjustment(timestamp, adjusted_units, mod, dam, rtm, units_read) ==
    LET highest_rate == Max(mod, Max(dam, rtm))
        battery_units == AdjBatteryUnits(units_read)
    IN
    IF adjusted_units <= 0
    THEN AdjOut(0, 0, 0, units_read, highest_rate, FALSE, 0, "NO_CHARGE", units_read)
    ELSE IF in_dsm_window(timestamp)
    THEN IF adjusted_units < battery_units
         THEN AdjOut(adjusted_units * BATTERY_CHARGE_RATE, adjusted_units, 0,
                     adjusted_units + units_read, highest_rate,
                     TRUE, adjusted_units, "USE", units_read)
         ELSE AdjOut(battery_units * BATTERY_CHARGE_RATE
                        + (adjusted_units - battery_units) * highest_rate,
                     battery_units, adjusted_units - battery_units,
                     battery_units + units_read, highest_rate,
                     TRUE, battery_units, "USE", units_read)
    ELSE AdjOut(adjusted_units * highest_rate, 0, 0, units_read, highest_rate,
                TRUE, adjusted_units, "NO_CHARGE", units_read)

\* ------------------------------------------------- calculate_consolidated
\* The JSON result of the route, from the fetched inputs and the two decisions
ConsolidatedResult(timestamp, in, totals, units_left_to_charge, bank, adj) ==
    [Timestamp |-> timestamp,
     banked_units |-> in.banked_units,
     adjusted_units |-> in.adjusted_units,
     schedule_generation |-> in.Scheduled_Generation,
     total_drawl |-> in.Drawl,
     dam_rate |-> in.DAM,
     rtm_rate |-> in.RTM,
     plant_backdown_data |-> SortedByVC(bank.plants_with_usage),
     total_backdown_units |-> totals.t_units,
     total_backdown_cost |-> totals.t_cost,
     weighted_avg_rate |-> bank.weighted_average,
     MOD_rate |-> totals.mod,
     highest_rate |-> Max(totals.mod, Max(in.DAM, in.RTM)),
     banking_cost |-> bank.banking_cost,
     DSM |-> bank.DSM_units,
     banking_cycle |-> bank.cycle,
     adjustment_charges |-> adj.adjustment_charges,
     battery_units_used_for_adjustment |-> adj.battery_used,
     market_purchase |-> adj.balance_units + bank.market_purchase,
     battery_charge_rate |-> adj.battery_charge_rate,
     battery_units_before_banking |-> units_left_to_charge,
     battery_units_available_after_banking |-> bank.units_available_after,
     units_used_to_charge |-> units_left_to_charge - bank.units_available_after,
     units_used_to_adjust |-> adj.units_available_after - bank.units_available_after,
     battery_units_after_adjustment |-> adj.units_available_after]

\* The documents of Battery_Status keyed by ts
DocsAt(coll, ts) == {d \in coll : d.Timestamp = ts}

\* Faulty variant (C21): the computed fields dropped when the upsert fails
PersistResponseDiscard(persist, result) ==
    [status_code |-> IF persist THEN 200 ELSE 207,
     warning |-> ~persist,
     content |-> IF persist THEN result ELSE [Timestamp |-> result.Timestamp]]

\* lines 544-559: the response after the upsert of the result; when the
\* upsert raises, status 207 and {"warning": ..., **result}
PersistResponse(persist, result) ==
    [status_code |-> IF persist THEN 200 ELSE 207,
     warning |-> ~persist,
     content |-> result]

\* One whole request handled alone: fetch and cache the plants, fetch the
\* inputs and the buffer status, decide banking (one upsert), compute the
\* adjustment (a fetch, at most one upsert), upsert the result.
\* in.absent names the collections among banking_data, Demand_Drawl and
\* market_price_data that hold no record of the block; in.plants is empty
\* when Plant_Generation holds none.
\* persist is whether the update_one on Banking-Adjust-consolidated succeeds.
calculate_consolidated(timestamp, in, persist) ==
    \E cache1 \in {IF in.plants = <<>> THEN prefix_cache
                   ELSE _cache_put(prefix_cache, timestamp, PrefixEntry(in.plants))} :
    \E totals \in {compute_totals(Reverse(in.plants), in.Last_Price)} :
    \E battery_details \in {fetch_battery_status(Battery_Status, timestamp)} :
    \E units_left_to_charge \in {battery_details.Units_Available} :
    /\ pc' = pc
    /\ local' = local
    /\ DemandOutput' = DemandOutput
    /\ IF in.absent # {}
       THEN \* LookupError inside the try of lines 475-481: HTTPException 404
            /\ prefix_cache' = cache1
            /\ UNCHANGED <<Battery_Status, bank_adj_coll>>
            /\ lastRun' = [op |-> "calculate_consolidated", status |-> 404,
                           ts |-> timestamp, in |-> in]
       ELSE IF ~CacheHas(cache1, timestamp)
       THEN \* LookupError out of decide_banking: an unhandled error, nothing written
            /\ prefix_cache' = cache1
            /\ UNCHANGED <<Battery_Status, bank_adj_coll>>
            /\ lastRun' = [op |-> "calculate_consolidated", status |-> 500,
                           ts |-> timestamp, in |-> in]
       ELSE
         \E bank \in {decide_banking(timestamp, in.banked_units, in.Scheduled_Generation,
                                     in.Drawl, totals.wav, in.DAM, in.RTM,
                                     totals.t_units, totals.t_cost, units_left_to_charge,
                                     _cache_get_entry(cache1, timestamp))} :
         \E bs1 \in {upsert_battery_status(Battery_Status, timestamp,
                                           bank.qty, bank.cycle)} :
         \E adj_details \in {fetch_battery_status(bs1, timestamp)} :
         \E adj \in {compute_adjustment(timestamp, in.adjusted_units, totals.mod,
                                        in.DAM, in.RTM, adj_details.Units_Available)} :
         \E bs2 \in {IF adj.write
                     THEN upsert_battery_status(bs1, timestamp, adj.qty, adj.cycle)
                     ELSE bs1} :
         \E result \in {ConsolidatedResult(timestamp, in, totals, units_left_to_charge,
                                           bank, adj)} :
         \E response \in {PersistResponse(persist, result)} :
         /\ prefix_cache' = _cache_get_cache(cache1, timestamp)
         /\ Battery_Status' = bs2
         /\ bank_adj_coll' =
              IF persist
              THEN update_one_upsert(bank_adj_coll, timestamp,
                                     [_meta |-> "calculate_consolidated"] @@ result)
              ELSE bank_adj_coll
         \* lastRun is the response and, for inspection, the values the run
         \* read and wrote; rerun tells that the previous request was the same
         /\ lastRun' = [op |-> "calculate_consolidated",
                        status |-> response.status_code,
                        warning |-> response.warning,
                        ts |-> timestamp, in |-> in,
                        battery_details |-> battery_details,
                        units_left_to_charge |-> units_left_to_charge,
                        bank |-> bank, adj_details |-> adj_details, adj |-> adj,
                        result |-> response.content,
                        writes |-> <<DocsAt(bs1, timestamp)>>
                                   \o (IF adj.write THEN <<DocsAt(bs2, timestamp)>>
                                       ELSE <<>>),
                        rerun |-> /\ lastRun.op = "calculate_consolidated"
                                  /\ lastRun.status = 200
                                  /\ lastRun.ts = timestamp
                                  /\ lastRun.in = in]

\* --------------------------------------------------------------- inputs
\* Plant readings of a block, VC ascending as the server-side sort returns them
PlantA == PlantRow("A", "Thermal", 10, 4, 200)
PlantB == PlantRow("B", "Thermal", 8, 8, 300)
PlantC == PlantRow("C", "Hydro", 6, 4, 250)
RunPlantLists == {<<PlantA, PlantB>>}

\* The block inputs of the sequential specification: no surplus or a
\* surplus of 1000 (the schedule matters only when units are banked)
RunInputs ==
    {in \in [banked_units : {0, 1000},
             adjusted_units : {0, 1200},
             Scheduled_Generation : {200, 1500},
             Drawl : {500},
             DAM : {500},
             RTM : {400},
             Last_Price : {None},
             absent : {{}},
             plants : RunPlantLists] :
        in.banked_units > 0 \/ in.Scheduled_Generation = 200}

\* Headrooms of a buffer record left by an earlier day
InitHeadrooms == {400}

Idle == [done |-> FALSE, served |-> 0]

Init ==
    /\ Battery_Status \in
         {{}} \cup {{[Timestamp |-> FirstBlock - BLOCK_MINUTES, Units_Available |-> h,
                      Cycle |-> "NO_CHARGE"]} : h \in InitHeadrooms}
    /\ bank_adj_coll = {}
    /\ prefix_cache = <<>>
    /\ lastRun = [op |-> "none", status |-> 0]
    /\ pc = [w \in Workers |-> "idle"]
    /\ local = [w \in Workers |-> Idle]
    /\ DemandOutput = {}

\* Requests served one at a time, the result upsert succeeding
Next ==
    \E ts \in Blocks, in \in RunInputs : calculate_consolidated(ts, in, TRUE)

Spec == Init /\ [][Next]_vars

\* ------------------------------------------------- concurrent requests
\* Several server processes (uvicorn workers, replicas) serve requests
\* against the one MongoDB.  Each find_one / update_one is one atomic step;
\* nothing else orders the steps of two requests.  Every process has its own
\* _prefix_cache, which holds the entry the request has just put.
ConcInputs ==
    [banked_units : {0, 1000},
     adjusted_units : {0, 1200},
     Scheduled_Generation : {1500},
     Drawl : {500},
     DAM : {500},
     RTM : {400},
     Last_Price : {None},
     plants : {<<PlantA, PlantB>>}]

\* Serialized variant (C10): a request is admitted only when no other is in flight
RequestAdmittedSerialized(w) == \A v \in Workers : pc[v] = "idle"

\* whether the handler accepts a request on worker w: no lock, no queue
RequestAdmitted(w) == pc[w] = "idle"

\* lines 473-485: fetch the inputs and the buffer status of the block
ReqFetch(w, timestamp, in) ==
    /\ RequestAdmitted(w)
    /\ local[w].served < MaxRequests
    /\ \E totals \in {compute_totals(Reverse(in.plants), in.Last_Price)} :
       \E units_left_to_charge \in
            {fetch_battery_status(Battery_Status, timestamp).Units_Available} :
       \E bank \in {decide_banking(timestamp, in.banked_units, in.Scheduled_Generation,
                                   in.Drawl, totals.wav, in.DAM, in.RTM,
                                   totals.t_units, totals.t_cost, units_left_to_charge,
                                   PrefixEntry(in.plants))} :
         local' = [local EXCEPT ![w] =
                     [done |-> FALSE, ts |-> timestamp, in |-> in, totals |-> totals,
                      units_left_to_charge |-> units_left_to_charge, bank |-> bank,
                      stale |-> FALSE, served |-> local[w].served + 1]]
    /\ pc' = [pc EXCEPT ![w] = "bank_read"]
    /\ UNCHANGED <<Battery_Status, bank_adj_coll, prefix_cache, lastRun, DemandOutput>>

\* upsert_battery_status line 258, called by decide_banking
BankRead(w) ==
    /\ pc[w] = "bank_read"
    /\ local' = [local EXCEPT ![w] =
                   [prev |-> fetch_battery_status(Battery_Status, local[w].ts).Units_Available]
                   @@ local[w]]
    /\ pc' = [pc EXCEPT ![w] = "bank_write"]
    /\ UNCHANGED <<Battery_Status, bank_adj_coll, prefix_cache, lastRun, DemandOutput>>

\* the headroom the store holds now differs from the one the upsert read
StaleNow(w) ==
    fetch_battery_status(Battery_Status, local[w].ts).Units_Available # local[w].prev

\* upsert_battery_status lines 261-276, called by decide_banking
BankWrite(w) ==
    /\ pc[w] = "bank_write"
    /\ Battery_Status' =
         update_one_upsert(Battery_Status, local[w].ts,
            [Units_Available |-> NewHeadroom(local[w].prev, local[w].bank.qty,
                                             local[w].bank.cycle),
             Cycle |-> local[w].bank.cycle])
    /\ local' = [local EXCEPT ![w].stale = StaleNow(w)]
    /\ pc' = [pc EXCEPT ![w] = "adj_fetch"]
    /\ UNCHANGED <<bank_adj_coll, prefix_cache, lastRun, DemandOutput>>

\* compute_adjustment lines 413-432: its own fetch, then the decision
AdjFetch(w) ==
    /\ pc[w] = "adj_fetch"
    /\ \E adj \in {compute_adjustment(local[w].ts, local[w].in.adjusted_units,
                                      local[w].totals.mod, local[w].in.DAM, local[w].in.RTM,
                                      fetch_battery_status(Battery_Status,
                                                           local[w].ts).Units_Available)} :
         /\ local' = [local EXCEPT ![w] = [adj |-> adj] @@ local[w]]
         /\ pc' = [pc EXCEPT ![w] = IF adj.write THEN "adj_read" ELSE "persist"]
    /\ UNCHANGED <<Battery_Status, bank_adj_coll, prefix_cache, lastRun, DemandOutput>>

\* upsert_battery_status line 258, called by compute_adjustment
AdjRead(w) ==
    /\ pc[w] = "adj_read"
    /\ local' = [local EXCEPT ![w].prev =
                   fetch_battery_status(Battery_Status, local[w].ts).Units_Available]
    /\ pc' = [pc EXCEPT ![w] = "adj_write"]
    /\ UNCHANGED <<Battery_Status, bank_adj_coll, prefix_cache, lastRun, DemandOutput>>

\* upsert_battery_status lines 261-276, called by compute_adjustment
AdjWrite(w) ==
    /\ pc[w] = "adj_write"
    /\ Battery_Status' =
         update_one_upsert(Battery_Status, local[w].ts,
            [Units_Available |-> NewHeadroom(local[w].prev, local[w].adj.qty,
                                             local[w].adj.cycle),
             Cycle |-> local[w].adj.cycle])
    /\ local' = [local EXCEPT ![w].stale = StaleNow(w)]
    /\ pc' = [pc EXCEPT ![w] = "persist"]
    /\ UNCHANGED <<bank_adj_coll, prefix_cache, lastRun, DemandOutput>>

\* lines 500-559: assemble the result and upsert it
Persist(w) ==
    /\ pc[w] = "persist"
    /\ bank_adj_coll' =
         update_one_upsert(bank_adj_coll, local[w].ts,
            [_meta |-> "calculate_consolidated"]
            @@ ConsolidatedResult(local[w].ts, local[w].in, local[w].totals,
                                  local[w].units_left_to_charge, local[w].bank,
                                  local[w].adj))
    /\ local' = [local EXCEPT ![w].done = TRUE]
    /\ pc' = [pc EXCEPT ![w] = "idle"]
    /\ UNCHANGED <<Battery_Status, prefix_cache, lastRun, DemandOutput>>

\* the same block or two adjacent blocks
ConcBlocks == {FirstBlock, FirstBlock + BLOCK_MINUTES}

NextConc ==
    \E w \in Workers :
        \/ \E ts \in ConcBlocks, in \in ConcInputs : ReqFetch(w, ts, in)
        \/ BankRead(w)
        \/ BankWrite(w)
        \/ AdjFetch(w)
        \/ AdjRead(w)
        \/ AdjWrite(w)
        \/ Persist(w)

InitConc ==
    /\ Battery_Status = {}
    /\ bank_adj_coll = {}
    /\ prefix_cache = <<>>
    /\ lastRun = [op |-> "none", status |-> 0]
    /\ pc = [w \in Workers |-> "idle"]
    /\ local = [w \in Workers |-> Idle]
    /\ DemandOutput = {}

SpecConc == InitConc /\ [][NextConc]_vars

\* ----------------------------------------------- decide_banking on its own
\* decide_banking applied once to drawn inputs, over a store that holds one
\* earlier record; the headroom passed in is the one the orchestrator fetches.
BankPlantLists == {<<PlantA, PlantB>>, <<PlantC>>, <<PlantA, PlantC>>}

BankInputs ==
    [banked_units : {0, 500, 1000, 2000},
     Scheduled_Generation : {200, 800, 1500, 3000},
     Drawl : {500},
     DAM : {300, 500},
     RTM : {400},
     plants : BankPlantLists]

BankHeadrooms == {0, 400, 1000, TOTAL_CAPACITY}

DecideBankingStep(timestamp, in) ==
    /\ lastRun.op = "none"
    /\ \E totals \in {compute_totals(Reverse(in.plants), None)} :
       \E before \in {fetch_battery_status(Battery_Status, timestamp).Units_Available} :
       \E bank \in {decide_banking(timestamp, in.banked_units, in.Scheduled_Generation,
                                   in.Drawl, totals.wav, in.DAM, in.RTM,
                                   totals.t_units, totals.t_cost, before,
                                   PrefixEntry(in.plants))} :
       \E bs1 \in {upsert_battery_status(Battery_Status, timestamp, bank.qty, bank.cycle)} :
         /\ Battery_Status' = bs1
         /\ lastRun' = [op |-> "decide_banking", status |-> 0, ts |-> timestamp,
                        in |-> in, totals |-> totals,
                        units_available_before |-> before, bank |-> bank,
                        writes |-> <<DocsAt(bs1, timestamp)>>]
    /\ UNCHANGED <<bank_adj_coll, prefix_cache, pc, local, DemandOutput>>

InitBank ==
    /\ Battery_Status \in
         {{[Timestamp |-> FirstBlock - BLOCK_MINUTES, Units_Available |-> h,
            Cycle |-> "NO_CHARGE"]} : h \in BankHeadrooms}
    /\ bank_adj_coll = {}
    /\ prefix_cache = <<>>
    /\ lastRun = [op |-> "none", status |-> 0]
    /\ pc = [w \in Workers |-> "idle"]
    /\ local = [w \in Workers |-> Idle]
    /\ DemandOutput = {}

NextBank == \E ts \in Blocks, in \in BankInputs : DecideBankingStep(ts, in)

SpecBank == InitBank /\ [][NextBank]_vars

\* ------------------------------------------- prefix pricing on its own
\* calculate_weighted_average_for_quantum_prefix and
\* allocate_used_for_quantum_desc applied once to a drawn plant list (VC
\* ascending, as the cursor returns it) and a drawn quantity.
PrefixPlantRows ==
    {PlantRow("P", "Hydro", dc, 0, vc) : dc \in 0..2, vc \in {200, 250, 300}}

PrefixPlantLists ==
    UNION {{s \in [1..n -> PrefixPlantRows] :
               \A i \in 1..(n - 1) : s[i].VC <= s[i + 1].VC} : n \in 1..MaxPlants}

PrefixQuanta == {125 * i : i \in (-1)..MaxQuantum}

PrefixStep ==
    /\ lastRun.op = "input"
    /\ \E cached \in {PrefixEntry(lastRun.plants)} :
         lastRun' = [op |-> "calculate_weighted_average_for_quantum_prefix",
                     status |-> 0, plants |-> lastRun.plants, q |-> lastRun.q,
                     totals |-> compute_totals(Reverse(lastRun.plants), None),
                     out |-> calculate_weighted_average_for_quantum_prefix(lastRun.q, cached),
                     usage |-> allocate_used_for_quantum_desc(cached, lastRun.q)]
    /\ UNCHANGED <<Battery_Status, bank_adj_coll, prefix_cache, pc, local, DemandOutput>>

InitPrefix ==
    /\ Battery_Status = {}
    /\ bank_adj_coll = {}
    /\ prefix_cache = <<>>
    /\ lastRun \in {[op |-> "input", status |-> 0, plants |-> p, q |-> q] :
                       p \in PrefixPlantLists, q \in PrefixQuanta}
    /\ pc = [w \in Workers |-> "idle"]
    /\ local = [w \in Workers |-> Idle]
    /\ DemandOutput = {}

NextPrefix == PrefixStep

SpecPrefix == InitPrefix /\ [][NextPrefix]_vars

\* ----------------------------------------------- in_dsm_window on its own
\* in_dsm_window applied once to a drawn timestamp: every minute of two days
DayMinutes == 24 * 60

DsmTimestamps == 0..(2 * DayMinutes - 1)

DsmStep ==
    /\ lastRun.op = "input"
    /\ lastRun' = [op |-> "in_dsm_window", status |-> 0, ts |-> lastRun.ts,
                   out |-> in_dsm_window(lastRun.ts)]
    /\ UNCHANGED <<Battery_Status, bank_adj_coll, prefix_cache, pc, local, DemandOutput>>

InitDsm ==
    /\ Battery_Status = {}
    /\ bank_adj_coll = {}
    /\ prefix_cache = <<>>
    /\ lastRun \in {[op |-> "input", status |-> 0, ts |-> t] : t \in DsmTimestamps}
    /\ pc = [w \in Workers |-> "idle"]
    /\ local = [w \in Workers |-> Idle]
    /\ DemandOutput = {}

NextDsm == DsmStep

SpecDsm == InitDsm /\ [][NextDsm]_vars

\* ------------------------------------------- one plant reading on its own
\* The loop body of fetch_plants_prepare_prefix applied once to a drawn
\* Plant_Generation row and the fuel type Plant_Fuel gives for the plant
\* ("Unknown" when it has none).
PlantReadings ==
    [Plant_Name : {"P"},
     Fuel_Type : {"Thermal", "Hydro", "Unknown"},
     DC : (-1)..MaxMW,
     SG : (-1)..MaxMW,
     VC : {200, 300}]

PlantStep ==
    /\ lastRun.op = "input"
    /\ lastRun' = [op |-> "fetch_plants_prepare_prefix", status |-> 0,
                   raw |-> lastRun.raw,
                   row |-> PlantRow(lastRun.raw.Plant_Name, lastRun.raw.Fuel_Type,
                                    lastRun.raw.DC, lastRun.raw.SG, lastRun.raw.VC)]
    /\ UNCHANGED <<Battery_Status, bank_adj_coll, prefix_cache, pc, local, DemandOutput>>

InitPlant ==
    /\ Battery_Status = {}
    /\ bank_adj_coll = {}
    /\ prefix_cache = <<>>
    /\ lastRun \in {[op |-> "input", status |-> 0, raw |-> r] : r \in PlantReadings}
    /\ pc = [w \in Workers |-> "idle"]
    /\ local = [w \in Workers |-> Idle]
    /\ DemandOutput = {}

NextPlant == PlantStep

SpecPlant == InitPlant /\ [][NextPlant]_vars

\* ------------------------------------------------ blocks with missing records
\* Requests for blocks whose Plant_Generation rows or whose banking_data,
\* Demand_Drawl or market_price_data record may be missing; the store starts
\* with or without an earlier Battery_Status record.
MissingInputs ==
    [banked_units : {1000},
     adjusted_units : {0, 1200},
     Scheduled_Generation : {1500},
     Drawl : {500},
     DAM : {500},
     RTM : {400},
     Last_Price : {None},
     absent : {{}, {"banking_data"}, {"Demand_Drawl"}, {"market_price_data"}},
     plants : {<<>>, <<PlantA, PlantB>>}]

\* the last block before the morning window and the first block inside it
MissingBlocks == {FirstBlock, FirstBlock + BLOCK_MINUTES}

NextMissing ==
    \E ts \in MissingBlocks, in \in MissingInputs : calculate_consolidated(ts, in, TRUE)

SpecMissing == Init /\ [][NextMissing]_vars

\* ------------------------------------------- requests whose result upsert may fail
\* Requests whose update_one on Banking-Adjust-consolidated succeeds or raises
PersistInputs ==
    [banked_units : {1000},
     adjusted_units : {0, 1200},
     Scheduled_Generation : {1500},
     Drawl : {500},
     DAM : {500},
     RTM : {400},
     Last_Price : {None},
     absent : {{}},
     plants : {<<PlantA, PlantB>>}]

NextPersist ==
    \E ts \in MissingBlocks, in \in PersistInputs, persist \in BOOLEAN :
        calculate_consolidated(ts, in, persist)

SpecPersist == Init /\ [][NextPersist]_vars

\* ------------------------------------------- stored values and their coercion
\* A stored numeric field is a number, the float NaN, or missing (absent from
\* the document, or null).
Num(v) == [kind |-> "num", v |-> v]
NaN == [kind |-> "nan", v |-> 0]
Missing == [kind |-> "missing", v |-> 0]

\* rec.get(key, 0.0) or 0.0: a missing value and 0 give 0.0; NaN is truthy
OrZero(val) == IF val = Missing THEN Num(0) ELSE val

\* if math.isnan(x): x = 0.0
NanToZero(val) == IF val = NaN THEN Num(0) ELSE val

\* safe_float: float(None) raises TypeError, NaN gives the default
safe_float(val) == IF val = Missing \/ val = NaN THEN Num(0) ELSE val

fetch_banking_row(rec) ==
    [banked_units |-> NanToZero(OrZero(rec.banked_units)),
     adjusted_units |-> NanToZero(OrZero(rec.adjusted_units))]

fetch_demand_drawl(rec) ==
    [Scheduled_Generation |-> OrZero(rec.Scheduled_Generation),
     Drawl |-> OrZero(rec.Drawl)]

fetch_market_prices(rec) ==
    [DAM |-> OrZero(rec.DAM), RTM |-> OrZero(rec.RTM)]

\* DC, SG, VC of a Plant_Generation row as fetch_plants_prepare_prefix reads them
fetch_plant_values(rec) ==
    [DC |-> safe_float(rec.DC), SG |-> safe_float(rec.SG), VC |-> safe_float(rec.VC)]

StoredValues == {Num(5), NaN, Missing}

StoredRecords ==
    [banked_units : StoredValues, adjusted_units : StoredValues,
     Scheduled_Generation : StoredValues, Drawl : StoredValues,
     DAM : StoredValues, RTM : StoredValues,
     DC : StoredValues, SG : StoredValues, VC : StoredValues]

\* The fetches of lines 473-478 applied once to the drawn stored values: the
\* values that reach decide_banking and compute_adjustment
FetchStep ==
    /\ lastRun.op = "input"
    /\ lastRun' = [op |-> "fetch", status |-> 0, stored |-> lastRun.stored,
                   arrived |-> fetch_banking_row(lastRun.stored)
                               @@ fetch_demand_drawl(lastRun.stored)
                               @@ fetch_market_prices(lastRun.stored)
                               @@ fetch_plant_values(lastRun.stored)]
    /\ UNCHANGED <<Battery_Status, bank_adj_coll, prefix_cache, pc, local, DemandOutput>>

InitFetch ==
    /\ Battery_Status = {}
    /\ bank_adj_coll = {}
    /\ prefix_cache = <<>>
    /\ lastRun \in {[op |-> "input", status |-> 0, stored |-> r] : r \in StoredRecords}
    /\ pc = [w \in Workers |-> "idle"]
    /\ local = [w \in Workers |-> Idle]
    /\ DemandOutput = {}

NextFetch == FetchStep

SpecFetch == InitFetch /\ [][NextFetch]_vars

\* ------------------------------------------------ routes/procurement.py
\* Energies are whole kWh per block, rates paise per kWh.  A plant row of
\* plant_details carries Max_Power and Min_Power as energies of a block; PAF
\* is 1 and Aux_Consumption 0 in the rows drawn here, so that the loading
\* factor is allocated_gen / (Rated_Capacity * 1000 * 0.25).
OtherPlant(code, vc, max_p, min_p) ==
    [Code |-> code, Type |-> "Other", Rated_Capacity |-> 2,
     Variable_Cost |-> vc, Max_Power |-> max_p, Min_Power |-> min_p]

\* sorted(plants, key=Variable_Cost): stable insertion sort
RECURSIVE InsertByCost(_, _)
InsertByCost(sorted, r) ==
    IF sorted = <<>> THEN <<r>>
    ELSE IF Head(sorted).Variable_Cost <= r.Variable_Cost
         THEN <<Head(sorted)>> \o InsertByCost(Tail(sorted), r)
         ELSE <<r>> \o sorted
RECURSIVE SortedByCost(_)
SortedByCost(rows) ==
    IF rows = <<>> THEN <<>>
    ELSE InsertByCost(SortedByCost(SubSeq(rows, 1, Len(rows) - 1)), rows[Len(rows)])

AllocEntry(plant, alloc_val) ==
    [plant_code |-> plant.Code, allocated_gen |-> alloc_val,
     min_gen |-> plant.Min_Power, max_gen |-> plant.Max_Power, Type |-> plant.Type]

\* Faulty variant (C25): a plant without capacity is not skipped
RECURSIVE AllocationWalkNoSkip(_, _, _)
AllocationWalkNoSkip(sorted_plants, net_demand, total_alloc) ==
    IF sorted_plants = <<>> THEN <<>>
    ELSE LET plant == Head(sorted_plants)
             rem == net_demand - total_alloc
         IN IF rem <= 0 THEN <<>>
            ELSE IF rem <= plant.Max_Power
            THEN <<AllocEntry(plant, Max(plant.Min_Power, rem))>>
            ELSE <<AllocEntry(plant, plant.Max_Power)>>
                 \o AllocationWalkNoSkip(Tail(sorted_plants), net_demand,
                                         total_alloc + plant.Max_Power)

\* lines 151-169: the forward walk over the plants, cheapest first
RECURSIVE AllocationWalk(_, _, _)
AllocationWalk(sorted_plants, net_demand, total_alloc) ==
    IF sorted_plants = <<>> THEN <<>>
    ELSE LET plant == Head(sorted_plants)
             rem == net_demand - total_alloc
         IN IF plant.Max_Power <= 0
            THEN AllocationWalk(Tail(sorted_plants), net_demand, total_alloc)
            ELSE IF rem <= 0 THEN <<>>
            ELSE IF rem <= plant.Max_Power
            THEN <<AllocEntry(plant, Max(plant.Min_Power, rem))>>
            ELSE <<AllocEntry(plant, plant.Max_Power)>>
                 \o AllocationWalk(Tail(sorted_plants), net_demand,
                                   total_alloc + plant.Max_Power)

\* Faulty variant (C26): the trim takes the whole excess from the first
\* allocation it meets, below its minimum if need be
RECURSIVE TrimReversedNoFloor(_, _)
TrimReversedNoFloor(reversed_allocation, excess) ==
    IF reversed_allocation = <<>> \/ excess <= 0 THEN reversed_allocation
    ELSE <<[Head(reversed_allocation) EXCEPT !.allocated_gen = @ - excess]>>
         \o Tail(reversed_allocation)

\* lines 172-182: the allocations walked in reverse, each reduced down to
\* its min_gen until the excess is absorbed
RECURSIVE TrimReversed(_, _)
TrimReversed(reversed_allocation, excess) ==
    IF reversed_allocation = <<>> \/ excess <= 0 THEN reversed_allocation
    ELSE LET alloc == Head(reversed_allocation)
             reducible == alloc.allocated_gen - alloc.min_gen
             red == Min(reducible, excess)
         IN IF reducible <= 0
            THEN <<alloc>> \o TrimReversed(Tail(reversed_allocation), excess)
            ELSE <<[alloc EXCEPT !.allocated_gen = @ - red]>>
                 \o TrimReversed(Tail(reversed_allocation), excess - red)

TotalAllocated(allocation) ==
    SumSeq([i \in 1..Len(allocation) |-> allocation[i].allocated_gen])

\* the allocation list after the walk and the trim
Allocation(plants, net_demand) ==
    LET walk == AllocationWalk(SortedByCost(plants), net_demand, 0)
    IN Reverse(TrimReversed(Reverse(walk), TotalAllocated(walk) - net_demand))

\* back_down_table: loading-factor bands in percent, SHR and
\* Aux_Consumption in percent
BackdownTable ==
    <<[lower |-> 0, upper |-> 50, SHR |-> 5, Aux_Consumption |-> 10],
      [lower |-> 51, upper |-> 100, SHR |-> 0, Aux_Consumption |-> 0]>>

\* the first band with lower <= plf * 100 <= upper, plf = gen / denom; no
\* band gives SHR = Aux = 0
BandOf(gen, denom, backdown_table) ==
    LET hits == {i \in 1..Len(backdown_table) :
                    /\ backdown_table[i].lower * denom <= 100 * gen
                    /\ 100 * gen <= backdown_table[i].upper * denom}
    IN IF denom <= 0 \/ hits = {} THEN [SHR |-> 0, Aux_Consumption |-> 0]
       ELSE LET i == CHOOSE i \in hits : \A j \in hits : i <= j
            IN [SHR |-> backdown_table[i].SHR,
                Aux_Consumption |-> backdown_table[i].Aux_Consumption]

\* _map_and_calculate and lines 188-212: one row of the final list
_map_and_calculate(alloc, plants, backdown_table) ==
    LET p == CHOOSE q \in {plants[i] : i \in 1..Len(plants)} : q.Code = alloc.plant_code
        gen == alloc.allocated_gen
        band == BandOf(gen, p.Rated_Capacity * 250, backdown_table)
        backdown_rate == IF 100 - band.Aux_Consumption <= 0 THEN 0
                         ELSE RoundDiv(p.Variable_Cost * (100 + band.SHR),
                                       100 - band.Aux_Consumption)
        backdown_qty == alloc.max_gen - gen
    IN [plant_code |-> alloc.plant_code,
        Variable_Cost |-> p.Variable_Cost,
        max_power |-> alloc.max_gen,
        min_power |-> alloc.min_gen,
        generated_energy |-> gen,
        energy_not_taken |-> alloc.max_gen - gen,
        net_cost |-> gen * p.Variable_Cost,
        backdown_rate |-> backdown_rate,
        backdown_cost |-> backdown_rate * backdown_qty,
        backdown_unit |-> IF backdown_rate # 0 THEN backdown_qty ELSE 0]

\* _allocate_generation: ValueError for a net demand <= 0, else the rows of
\* the allocated plants by Variable_Cost and their total cost
_allocate_generation(plants, net_demand, backdown_table) ==
    IF net_demand <= 0 THEN [raised |-> "ValueError"]
    ELSE LET allocation == Allocation(plants, net_demand)
             final_list == [i \in 1..Len(allocation) |->
                              _map_and_calculate(allocation[i], plants, backdown_table)]
         IN [raised |-> "",
             other_plant_data |-> SortedByCost(final_list),
             total_cost |-> SumSeq([i \in 1..Len(final_list) |-> final_list[i].net_cost])]

\* ------------------------------------------- _allocate_generation on its own
\* _allocate_generation applied once to a drawn list of plants (ORDER BY
\* Variable_Cost, codes by position) and a drawn net demand.
AllocPlantLists ==
    UNION {{s \in [1..n -> [Variable_Cost : {200, 300}, Max_Power : {0, 200, 400},
                            Min_Power : {0, 300}]] :
               \A i \in 1..(n - 1) : s[i].Variable_Cost <= s[i + 1].Variable_Cost}
           : n \in 1..MaxPlants}

AllocPlants(s) ==
    [i \in 1..Len(s) |-> OtherPlant(i, s[i].Variable_Cost, s[i].Max_Power, s[i].Min_Power)]

NetDemands == {100 * i : i \in 0..7}

AllocStep ==
    /\ lastRun.op = "input"
    /\ lastRun' = [op |-> "_allocate_generation", status |-> 0,
                   plants |-> lastRun.plants, net_demand |-> lastRun.net_demand,
                   walk |-> AllocationWalk(SortedByCost(lastRun.plants),
                                           lastRun.net_demand, 0),
                   allocation |-> Allocation(lastRun.plants, lastRun.net_demand),
                   out |-> _allocate_generation(lastRun.plants, lastRun.net_demand,
                                                BackdownTable)]
    /\ UNCHANGED <<Battery_Status, bank_adj_coll, prefix_cache, pc, local, DemandOutput>>

InitAlloc ==
    /\ Battery_Status = {}
    /\ bank_adj_coll = {}
    /\ prefix_cache = <<>>
    /\ lastRun \in {[op |-> "input", status |-> 0, plants |-> AllocPlants(s),
                      net_demand |-> d] : s \in AllocPlantLists, d \in NetDemands}
    /\ pc = [w \in Workers |-> "idle"]
    /\ local = [w \in Workers |-> Idle]
    /\ DemandOutput = {}

NextAlloc == AllocStep

SpecAlloc == InitAlloc /\ [][NextAlloc]_vars

\* ------------------------------------------------------------------ get_MOD
\* The procurement endpoint.  Its timestamps are minutes relative to
\* cutoff_date (2024-04-01 00:00); powers are whole MW and one MW over a
\* 15-minute block is KwhPerMw kWh.
KwhPerMw == 1000 \div 4

DayOf(ts) == ts - (ts % DayMinutes)

\* utils.date_utils.parse_start_timestamp: the three accepted formats; a
\* date alone is the midnight of that date; anything else is a ValueError
parse_start_timestamp_du(raw_start) ==
    IF raw_start.form = "empty" THEN [raised |-> "ValueError", ts |-> 0]
    ELSE IF raw_start.form \in {"seconds", "minutes"}
         THEN [raised |-> "", ts |-> raw_start.ts]
    ELSE IF raw_start.form = "date" THEN [raised |-> "", ts |-> DayOf(raw_start.ts)]
    ELSE [raised |-> "ValueError", ts |-> 0]

\* _load_must_run_plants and _load_other_plants: plant_details rows
MustRunPlant(code, vc, max_p) ==
    [Code |-> code, Type |-> "Must run", Rated_Capacity |-> 2,
     Variable_Cost |-> vc, Max_Power |-> max_p, Min_Power |-> 0]

MustRunPlants == <<MustRunPlant(11, 100, 600), MustRunPlant(12, 150, 600)>>

OtherPlants ==
    AllocPlants(<<[Variable_Cost |-> 200, Max_Power |-> 200, Min_Power |-> 0],
                  [Variable_Cost |-> 300, Max_Power |-> 400, Min_Power |-> 300]>>)

\* preds[code] of _get_must_run: before the cutoff the Actual, from the
\* cutoff on the Actual when positive else the Pred; 0 without a document
MustRunMw(code, ts_dt, pred_docs) ==
    IF \A d \in pred_docs : d.Plant_Name # code THEN 0
    ELSE LET doc == CHOOSE d \in pred_docs : d.Plant_Name = code
         IN IF ts_dt < 0 THEN doc.Actual
            ELSE IF doc.Actual > 0 THEN doc.Actual ELSE doc.Pred

_get_must_run(banked_kwh, ts_dt, pred_docs) ==
    IF banked_kwh <= 0
    THEN [plant_data |-> <<>>, generated_energy_all |-> 0, total_cost |-> 0]
    ELSE LET data == [i \in 1..Len(MustRunPlants) |->
                        LET p == MustRunPlants[i]
                            gen_kwh == MustRunMw(p.Code, ts_dt, pred_docs) * KwhPerMw
                        IN [plant_code |-> p.Code, Type |-> p.Type,
                            Variable_Cost |-> p.Variable_Cost,
                            generated_energy |-> gen_kwh,
                            max_power |-> p.Max_Power,
                            min_power |-> p.Min_Power,
                            energy_not_taken |-> p.Max_Power - gen_kwh,
                            net_cost |-> gen_kwh * p.Variable_Cost]]
         IN [plant_data |-> data,
             generated_energy_all |->
                 SumSeq([i \in 1..Len(data) |-> data[i].generated_energy]),
             total_cost |-> SumSeq([i \in 1..Len(data) |-> data[i].net_cost])]

\* _get_exchange: no document is price 0 and quantity 0; a price above the
\* cap is reported as 0
_get_exchange(iex_doc, cap_price) ==
    IF ~iex_doc.present THEN [Pred_Price |-> 0, Qty_Pred |-> 0]
    ELSE [Pred_Price |-> IF iex_doc.Pred_Price > cap_price THEN 0
                         ELSE iex_doc.Pred_Price,
          Qty_Pred |-> iex_doc.Qty_Pred * KwhPerMw]

\* _get_other_run: nothing for a net demand <= 0, else the merit-order
\* allocation over the plants of Type 'Other'
_get_other_run(net2_kwh, plants) ==
    IF net2_kwh <= 0 THEN [raised |-> "", other_plant_data |-> <<>>, total_cost |-> 0]
    ELSE _allocate_generation(plants, net2_kwh, BackdownTable)

\* Faulty variant (C23): the exchange quantity is not taken off before the
\* allocator runs
NetDemandIgnoringExchange(banked_kwh, must_total, iex_gen) ==
    Max(banked_kwh - must_total, 0)

\* net1 and net2 of get_MOD
NetDemandAfterExchange(banked_kwh, must_total, iex_gen) ==
    Max(Max(banked_kwh - must_total, 0) - iex_gen, 0)

\* DemandOutput.replace_one({"TimeStamp": ts_dt}, doc, upsert=True)
replace_one_upsert(coll, ts_dt, doc) ==
    {d \in coll : d.TimeStamp # ts_dt} \cup {doc}

\* rem_plants with the backdown figures zeroed (banking_unit == 0)
ZeroBackdown(rem_plants) ==
    [i \in 1..Len(rem_plants) |->
        [rem_plants[i] EXCEPT !.backdown_cost = 0, !.backdown_unit = 0]]

MOD_Result(ts_dt, in) ==
    LET actual_kwh == in.demand_doc.Actual * KwhPerMw
        pred_kwh == in.demand_doc.Pred * KwhPerMw
        banking_unit == in.banking_unit
        base_kwh == IF actual_kwh = 0 THEN pred_kwh ELSE actual_kwh
        banked_kwh == Max(base_kwh - banking_unit, 0)
        must == _get_must_run(banked_kwh, ts_dt, in.pred_docs)
        iex == _get_exchange(in.iex_doc, in.price_cap)
        iex_cost == IF iex.Pred_Price # 0 THEN iex.Pred_Price * iex.Qty_Pred ELSE 0
        iex_gen == IF iex.Pred_Price # 0 THEN iex.Qty_Pred ELSE 0
        net2 == NetDemandAfterExchange(banked_kwh, must.generated_energy_all, iex_gen)
        other == _get_other_run(net2, OtherPlants)
        rem_plants == IF banking_unit = 0 THEN ZeroBackdown(other.other_plant_data)
                      ELSE other.other_plant_data
        rem_idx == 1..Len(rem_plants)
        backed == {i \in rem_idx : rem_plants[i].backdown_unit > 0}
        iex_price == IF iex.Qty_Pred > 0 THEN iex.Pred_Price ELSE 0
    IN [banked_kwh |-> banked_kwh, must |-> must, iex_gen |-> iex_gen, net2 |-> net2,
        allocator_called |-> net2 > 0,
        allocator_plants |-> IF net2 > 0 THEN OtherPlants ELSE <<>>,
        result |->
          [TimeStamp |-> ts_dt,
           Demand_Actual |-> actual_kwh,
           Demand_Pred |-> pred_kwh,
           Banking_Unit |-> banking_unit,
           Demand_Banked |-> banked_kwh,
           Backdown_Cost_Min |->
               IF banking_unit = 0 \/ backed = {} THEN 0
               ELSE LET i == CHOOSE i \in backed : \A j \in backed :
                                 rem_plants[i].backdown_rate <= rem_plants[j].backdown_rate
                    IN rem_plants[i].backdown_rate,
           Must_Run |-> must.plant_data,
           Must_Run_Total_Gen |-> must.generated_energy_all,
           Must_Run_Total_Cost |-> must.total_cost,
           IEX_Data |-> iex,
           IEX_Gen |-> iex_gen,
           IEX_Cost |-> iex_cost,
           Remaining_Plants |-> rem_plants,
           Remaining_Plants_Total_Gen |->
               SumSeq([i \in rem_idx |-> rem_plants[i].generated_energy]),
           Remaining_Plants_Total_Cost |-> other.total_cost,
           Last_Price |-> IF rem_plants = <<>> THEN iex_price
                          ELSE Max(rem_plants[Len(rem_plants)].Variable_Cost, iex_price),
           Cost_Per_Block |->
               IF banked_kwh = 0 THEN 0
               ELSE RoundDiv(must.total_cost + iex_cost + other.total_cost, banked_kwh),
           Backdown_Cost |->
               IF banking_unit > 0
               THEN SumSeq([i \in rem_idx |-> rem_plants[i].backdown_cost]) ELSE 0,
           Backdown_Unit |->
               IF banking_unit > 0
               THEN SumSeq([i \in rem_idx |-> rem_plants[i].backdown_unit]) ELSE 0]]

\* GET /: 400 for a start_date that does not parse, 404 without a demand
\* document, else the result, upserted into DemandOutput by timestamp
get_MOD(start_date, in) ==
    /\ \E parsed \in {parse_start_timestamp_du(start_date)} :
         IF parsed.raised # ""
         THEN /\ lastRun' = [op |-> "get_MOD", status |-> 400,
                             start_date |-> start_date]
              /\ UNCHANGED DemandOutput
         ELSE IF ~in.demand_doc.present
         THEN /\ lastRun' = [op |-> "get_MOD", status |-> 404,
                             start_date |-> start_date]
              /\ UNCHANGED DemandOutput
         ELSE \E run \in {MOD_Result(parsed.ts, in)} :
                /\ DemandOutput' = replace_one_upsert(DemandOutput, parsed.ts, run.result)
                /\ lastRun' = [op |-> "get_MOD", status |-> 200,
                               start_date |-> start_date, in |-> in,
                               ts |-> parsed.ts, banked_kwh |-> run.banked_kwh,
                               must |-> run.must, iex_gen |-> run.iex_gen,
                               net2 |-> run.net2,
                               allocator_called |-> run.allocator_called,
                               allocator_plants |-> run.allocator_plants,
                               result |-> run.result]
    /\ UNCHANGED <<Battery_Status, bank_adj_coll, prefix_cache, pc, local>>

\* requests: the block before the cutoff and the block at it, the latter
\* in each accepted format, and two start_date values that do not parse
StartDates ==
    {[form |-> "minutes", ts |-> 0 - BLOCK_MINUTES], [form |-> "minutes", ts |-> 0],
     [form |-> "seconds", ts |-> 0], [form |-> "date", ts |-> 0],
     [form |-> "other", ts |-> 0], [form |-> "empty", ts |-> 0]}

DemandDocs ==
    {[present |-> FALSE, Actual |-> 0, Pred |-> 0],
     [present |-> TRUE, Actual |-> 0, Pred |-> 4],
     [present |-> TRUE, Actual |-> 2, Pred |-> 4]}

PredDocs ==
    {{[Plant_Name |-> 11, Actual |-> 0, Pred |-> 1]},
     {[Plant_Name |-> 11, Actual |-> 2, Pred |-> 1],
      [Plant_Name |-> 12, Actual |-> 0, Pred |-> 1]}}

\* the IEX_Generation document and the price_cap of the request
Exchanges ==
    {[iex_doc |-> [present |-> FALSE, Pred_Price |-> 0, Qty_Pred |-> 0], price_cap |-> 0],
     [iex_doc |-> [present |-> TRUE, Pred_Price |-> 300, Qty_Pred |-> 1], price_cap |-> 0],
     [iex_doc |-> [present |-> TRUE, Pred_Price |-> 300, Qty_Pred |-> 1], price_cap |-> 400]}

ModInputs ==
    {[demand_doc |-> d, banking_unit |-> b, pred_docs |-> m,
      iex_doc |-> x.iex_doc, price_cap |-> x.price_cap] :
        d \in DemandDocs, b \in {0, 500}, m \in PredDocs, x \in Exchanges}

InitProc ==
    /\ Battery_Status = {}
    /\ bank_adj_coll = {}
    /\ prefix_cache = <<>>
    /\ lastRun = [op |-> "none", status |-> 0]
    /\ pc = [w \in Workers |-> "idle"]
    /\ local = [w \in Workers |-> Idle]
    /\ DemandOutput = {}

NextProc == \E start_date \in StartDates, in \in ModInputs : get_MOD(start_date, in)

SpecProc == InitProc /\ [][NextProc]_vars


\* ------------------------------------------------- the prefix cache on its own
\* _cache_put and _cache_get applied in any order to a cache one entry short
\* of _PREFIX_CACHE_MAX, over its two oldest keys, its newest key and two
\* keys it does not hold.  lastRun carries, besides the call, a clock and the
\* time of the last put or read of every key.
MaxCacheOps == 3

CacheKey(i) == BLOCK_MINUTES * (i - 1)
WarmCache ==
    [i \in 1..(_PREFIX_CACHE_MAX - 1) |-> [ts |-> CacheKey(i), entry |-> PrefixEntry(<<>>)]]
CacheKeys ==
    {CacheKey(1), CacheKey(2), CacheKey(_PREFIX_CACHE_MAX - 1),
     CacheKey(_PREFIX_CACHE_MAX), CacheKey(_PREFIX_CACHE_MAX + 1)}
PutEntry == PrefixEntry(SortedByVC(<<PlantA>>))

KeysOf(cache) == {cache[i].ts : i \in 1..Len(cache)}

CachePutStep(ts) ==
    /\ lastRun.clock < MaxCacheOps
    /\ prefix_cache' = _cache_put(prefix_cache, ts, PutEntry)
    /\ lastRun' = [op |-> "_cache_put", status |-> 0, ts |-> ts,
                   clock |-> lastRun.clock + 1,
                   used |-> [lastRun.used EXCEPT ![ts] = lastRun.clock + 1],
                   used_before |-> lastRun.used,
                   before |-> KeysOf(prefix_cache),
                   returned |-> None]
    /\ UNCHANGED <<Battery_Status, bank_adj_coll, pc, local, DemandOutput>>

CacheGetStep(ts) ==
    /\ lastRun.clock < MaxCacheOps
    /\ prefix_cache' = _cache_get_cache(prefix_cache, ts)
    /\ lastRun' = [op |-> "_cache_get", status |-> 0, ts |-> ts,
                   clock |-> lastRun.clock + 1,
                   used |-> IF CacheHas(prefix_cache, ts)
                            THEN [lastRun.used EXCEPT ![ts] = lastRun.clock + 1]
                            ELSE lastRun.used,
                   used_before |-> lastRun.used,
                   before |-> KeysOf(prefix_cache),
                   returned |-> _cache_get_entry(prefix_cache, ts)]
    /\ UNCHANGED <<Battery_Status, bank_adj_coll, pc, local, DemandOutput>>

InitCache ==
    /\ Battery_Status = {}
    /\ bank_adj_coll = {}
    /\ prefix_cache = WarmCache
    /\ lastRun = [op |-> "none", status |-> 0, ts |-> 0, clock |-> 0,
                  used |-> [k \in KeysOf(WarmCache) \cup CacheKeys |->
                               IF k \in KeysOf(WarmCache)
                               THEN (k \div BLOCK_MINUTES) - _PREFIX_CACHE_MAX ELSE 0],
                  used_before |-> [k \in KeysOf(WarmCache) \cup CacheKeys |-> 0],
                  before |-> {}, returned |-> None]
    /\ pc = [w \in Workers |-> "idle"]
    /\ local = [w \in Workers |-> Idle]
    /\ DemandOutput = {}

NextCache ==
    \/ \E ts \in CacheKeys : CachePutStep(ts)
    \/ \E ts \in CacheKeys : CacheGetStep(ts)

SpecCache == InitCache /\ [][NextCache]_vars


\* ------------------------------------------------ requests that are rejected
\* Helpers.helpers.parse_start_timestamp: 'YYYY-MM-DD HH:MM' is the minute
\* given, 'YYYY-MM-DD' the midnight of the date; an empty value and every
\* other format (seconds included) is a ValueError
parse_start_timestamp(raw_start) ==
    IF raw_start.form = "empty" THEN [raised |-> "ValueError", ts |-> 0]
    ELSE IF raw_start.form = "minutes" THEN [raised |-> "", ts |-> raw_start.ts]
    ELSE IF raw_start.form = "date" THEN [raised |-> "", ts |-> DayOf(raw_start.ts)]
    ELSE [raised |-> "ValueError", ts |-> 0]

\* GET /calculate/v2 from its start_date: 400 when it does not parse, else
\* the run for the parsed timestamp
ConsolidatedRequest(start_date, in) ==
    \E parsed \in {parse_start_timestamp(start_date)} :
       IF parsed.raised # ""
       THEN /\ lastRun' = [op |-> "calculate_consolidated", status |-> 400,
                           start_date |-> start_date]
            /\ UNCHANGED <<Battery_Status, bank_adj_coll, prefix_cache, pc, local,
                           DemandOutput>>
       ELSE calculate_consolidated(parsed.ts, in, TRUE)

RejectStartDates ==
    {[form |-> "minutes", ts |-> FirstBlock], [form |-> "date", ts |-> FirstBlock],
     [form |-> "seconds", ts |-> FirstBlock], [form |-> "other", ts |-> 0],
     [form |-> "empty", ts |-> 0]}

RejectInputs == {in \in MissingInputs : in.plants # <<>>}

\* Faulty variant (C28): the Banking write of the block goes out before the
\* banking_data, Demand_Drawl and market_price_data records are checked
NextRejectLateCheck ==
    \/ \E start_date \in RejectStartDates, in \in RejectInputs :
          ConsolidatedRequest(start_date, in)
    \/ \E in \in RejectInputs :
          /\ in.absent # {}
          /\ Battery_Status' = upsert_battery_status(Battery_Status, FirstBlock,
                                                     in.banked_units, "CHARGE")
          /\ lastRun' = [op |-> "calculate_consolidated", status |-> 404,
                         ts |-> FirstBlock, in |-> in]
          /\ UNCHANGED <<bank_adj_coll, prefix_cache, pc, local, DemandOutput>>

NextReject ==
    \E start_date \in RejectStartDates, in \in RejectInputs :
       ConsolidatedRequest(start_date, in)

SpecReject == Init /\ [][NextReject]_vars


\* =================================================================== claims
Ran == lastRun.op = "calculate_consolidated" /\ lastRun.status = 200

\* Headroom kept within [0, capacity]
Clamp(h) == Max(0, Min(h, TOTAL_CAPACITY))

\* C1: in one consolidated run, compute_adjustment starts from the headroom
\* decide_banking has just produced (units_available_after), never from a
\* value read back from the buffer-status store.
C1_AdjustmentStartsFromBankingOutput ==
    Ran => lastRun.adj.units_read = lastRun.bank.units_available_after

\* C2: the two buffer transitions of a block compose: with starting headroom
\* h, c units charged by Banking and d units discharged by Adjustment, the
\* headroom persisted for the block is h - c + d, kept within [0, capacity].
C2_TransitionsCompose ==
    Ran =>
      LET h == lastRun.units_left_to_charge
          c == h - lastRun.bank.units_available_after
          d == lastRun.adj.battery_used
      IN \A doc \in DocsAt(Battery_Status, lastRun.ts) :
            doc.Units_Available = Clamp(h - c + d)

\* C3: the starting headroom of a run for block ts is the Units_Available of
\* the record with the greatest timestamp strictly earlier than ts in the
\* store the run found; a record at ts or later is never the one read.
C3_StartFromLatestEarlier ==
    [][(lastRun'.op = "calculate_consolidated" /\ lastRun'.status = 200) =>
         LET ts == lastRun'.ts
             read == lastRun'.battery_details
         IN /\ read.Timestamp < ts
            /\ lastRun'.units_left_to_charge = read.Units_Available
            /\ (\E e \in Battery_Status : e.Timestamp < ts) =>
                 /\ read \in Battery_Status
                 /\ \A e \in Battery_Status : e.Timestamp < ts => e.Timestamp <= read.Timestamp
       ]_vars

\* C3 witness: a run for a block that has an earlier and a later record
C3_Witness ==
    /\ Ran
    /\ lastRun.battery_details \in Battery_Status
    /\ \E e \in Battery_Status :
          /\ e.Timestamp > lastRun.ts
          /\ e.Units_Available # lastRun.units_left_to_charge

\* C4 as claimed: when a record with timestamp ts exists, the lookup for ts
\* returns that record (at-or-before rule).  The adjustment's lookup runs
\* when Banking has just written the record of ts (writes[1]).
C4_AtOrBefore ==
    Ran => lastRun.adj_details \in lastRun.writes[1]

\* C4 amended: the lookup for ts returns the most recent record strictly
\* earlier than ts (the synthetic full-headroom record when there is none),
\* also when a record with timestamp ts exists; never a record at ts or later.
C4_StrictlyBefore ==
    Ran =>
      LET ts == lastRun.ts
          got == lastRun.adj_details
      IN /\ DocsAt(Battery_Status, ts) # {}
         /\ got.Timestamp < ts
         /\ IF \E e \in Battery_Status : e.Timestamp < ts
            THEN /\ got \in Battery_Status
                 /\ \A e \in Battery_Status : e.Timestamp < ts => e.Timestamp <= got.Timestamp
            ELSE got = [Timestamp |-> ts - BLOCK_MINUTES,
                        Units_Available |-> TOTAL_CAPACITY, Cycle |-> "NO_CHARGE"]

\* C4 witness: the adjustment's lookup ran while the record of ts, just
\* written by Banking with another headroom, was in the store
C4_Witness ==
    /\ Ran
    /\ lastRun.bank.cycle = "CHARGE"
    /\ \E w \in lastRun.writes[1] :
          w.Units_Available # lastRun.adj_details.Units_Available

\* C5: every persisted Units_Available lies within [0, capacity].
C5_HeadroomWithinCapacity ==
    \A doc \in Battery_Status :
        0 <= doc.Units_Available /\ doc.Units_Available <= TOTAL_CAPACITY

\* C5 witness: a discharge that had to be cut at the capacity
C5_Witness ==
    /\ Ran
    /\ lastRun.adj.balance_units > 0
    /\ lastRun.adj.battery_used > 0
    /\ \E doc \in DocsAt(Battery_Status, lastRun.ts) :
          doc.Cycle = "USE" /\ doc.Units_Available = TOTAL_CAPACITY

\* C6: a run repeated right away for the same block with the same inputs
\* gives the same result fields and the same buffer-status record.
C6_RerunIdentical ==
    [][(lastRun'.op = "calculate_consolidated" /\ lastRun'.status = 200
         /\ lastRun'.rerun) =>
         /\ lastRun'.result = lastRun.result
         /\ DocsAt(Battery_Status', lastRun'.ts) = DocsAt(Battery_Status, lastRun.ts)
         /\ DocsAt(bank_adj_coll', lastRun'.ts) = DocsAt(bank_adj_coll, lastRun.ts)
       ]_vars

\* C6 witness: a block that charged the buffer has been run twice in a row
C6_Witness ==
    /\ Ran
    /\ lastRun.rerun
    /\ lastRun.bank.cycle = "CHARGE"
    /\ lastRun.bank.qty > 0
    /\ lastRun.result.units_used_to_charge > 0

\* C7: both stores hold at most one record per block timestamp, and the
\* record of a block is the one written by the most recent run for it.
C7_OneRecordPerBlock ==
    /\ \A doc \in Battery_Status :
          Cardinality(DocsAt(Battery_Status, doc.Timestamp)) = 1
    /\ \A doc \in bank_adj_coll :
          Cardinality(DocsAt(bank_adj_coll, doc.Timestamp)) = 1
    /\ Ran =>
         /\ DocsAt(bank_adj_coll, lastRun.ts)
              = {[_meta |-> "calculate_consolidated"] @@ lastRun.result}
         /\ DocsAt(Battery_Status, lastRun.ts) = lastRun.writes[Len(lastRun.writes)]

\* C7 witness: the first block was run again, with another outcome, after
\* the second block had been settled from its earlier headroom
C7_Witness ==
    /\ Ran
    /\ lastRun.ts = FirstBlock
    /\ \E r \in bank_adj_coll, doc \in Battery_Status :
          /\ r.Timestamp = FirstBlock + BLOCK_MINUTES
          /\ r.battery_units_before_banking = TOTAL_CAPACITY - 1000
          /\ doc.Timestamp = FirstBlock
          /\ doc.Units_Available = TOTAL_CAPACITY

\* C8 as claimed: for every decide_banking outcome with banked_units > 0,
\* DSM_units + units absorbed by the buffer + market_purchase = banked_units.
C8_Conservation ==
    (lastRun.op = "decide_banking" /\ lastRun.in.banked_units > 0) =>
       lastRun.bank.DSM_units
         + (lastRun.units_available_before - lastRun.bank.units_available_after)
         + lastRun.bank.market_purchase
       = lastRun.in.banked_units

\* C8 amended: the sum is banked_units when the surplus covers the banked
\* units (market_purchase being 0 there); in every other outcome nothing goes
\* to DSM or into the buffer, the quantity being priced instead.
C8_ConservationWhenSurplusCovers ==
    (lastRun.op = "decide_banking" /\ lastRun.in.banked_units > 0) =>
       LET s_d == Max(lastRun.in.Scheduled_Generation - lastRun.in.Drawl, 0)
           absorbed == lastRun.units_available_before - lastRun.bank.units_available_after
       IN IF s_d >= lastRun.in.banked_units
          THEN /\ lastRun.bank.DSM_units + absorbed + lastRun.bank.market_purchase
                    = lastRun.in.banked_units
               /\ lastRun.bank.market_purchase = 0
               /\ absorbed >= 0
               /\ lastRun.bank.DSM_units >= 0
          ELSE lastRun.bank.DSM_units = 0 /\ absorbed = 0

\* C8 witness: a partial charge, the rest of the banked units going to DSM
C8_Witness ==
    /\ lastRun.op = "decide_banking"
    /\ lastRun.bank.cycle = "CHARGE"
    /\ lastRun.bank.DSM_units > 0
    /\ lastRun.units_available_before > lastRun.bank.units_available_after

\* C9: each buffer-status write of a run, against the starting headroom h of
\* the block: CHARGE stores at most h, USE at least h, NO_CHARGE exactly h.
C9_WriteDirection ==
    Ran =>
      \A i \in 1..Len(lastRun.writes) : \A w \in lastRun.writes[i] :
         /\ w.Cycle = "CHARGE" => w.Units_Available <= lastRun.units_left_to_charge
         /\ w.Cycle = "USE" => w.Units_Available >= lastRun.units_left_to_charge
         /\ w.Cycle = "NO_CHARGE" => w.Units_Available = lastRun.units_left_to_charge

\* C9 witness: a run whose Banking write charged and whose Adjustment write
\* was a second write of the same block
C9_Witness ==
    /\ Ran
    /\ Len(lastRun.writes) = 2
    /\ \E w \in lastRun.writes[1] :
          w.Cycle = "CHARGE" /\ w.Units_Available < lastRun.units_left_to_charge

\* C10: the buffer read-compute-upsert sequence is not serialized: while one
\* request is between its reads and its writes of Battery_Status, another
\* worker's request is admitted and each of its steps can be taken, so that
\* an update can be lost (the witness).
InFlight(w) == pc[w] \in {"bank_read", "bank_write", "adj_fetch", "adj_read", "adj_write"}

C10_NotSerialized ==
    \A w \in Workers : \A v \in Workers \ {w} :
       InFlight(w) =>
          /\ (pc[v] = "idle" /\ local[v].served < MaxRequests) =>
                ENABLED (\E ts \in ConcBlocks, in \in ConcInputs : ReqFetch(v, ts, in))
          /\ pc[v] = "bank_read" => ENABLED BankRead(v)
          /\ pc[v] = "bank_write" => ENABLED BankWrite(v)
          /\ pc[v] = "adj_fetch" => ENABLED AdjFetch(v)
          /\ pc[v] = "adj_read" => ENABLED AdjRead(v)
          /\ pc[v] = "adj_write" => ENABLED AdjWrite(v)

\* C10 witness: the request for block N+1 read its headroom before the
\* request for block N wrote its charge and wrote after it: N's record holds
\* the charge, N+1's record is computed from the headroom before the charge.
C10_Witness ==
    \E a \in Workers, b \in Workers :
       /\ local[a].done /\ local[b].done
       /\ local[a].ts = FirstBlock
       /\ local[b].ts = FirstBlock + BLOCK_MINUTES
       /\ local[a].bank.cycle = "CHARGE" /\ local[a].bank.qty > 0
       /\ local[b].stale
       /\ local[b].units_left_to_charge = TOTAL_CAPACITY
       /\ \E dN \in DocsAt(Battery_Status, FirstBlock),
             dN1 \in DocsAt(Battery_Status, FirstBlock + BLOCK_MINUTES) :
             /\ dN.Units_Available = TOTAL_CAPACITY - local[a].bank.qty
             /\ dN1.Units_Available = TOTAL_CAPACITY

\* C11: for every VC-ascending plant list with non-negative backdown units
\* and every q > 0 the prefix cost equals the cost of the linear scan that
\* fills q cheapest-first (the usage allocate_used_for_quantum_desc gives)
\* and prices the quantity beyond the total backdown units at the rate of the
\* most expensive plant; for q <= 0 the cost is 0.
PricedPrefix == lastRun.op = "calculate_weighted_average_for_quantum_prefix"

HighestVC(plants) ==
    CHOOSE v \in {plants[i].VC : i \in 1..Len(plants)} :
        \A i \in 1..Len(plants) : plants[i].VC <= v

C11_PrefixEqualsLinearScan ==
    PricedPrefix =>
      IF lastRun.q <= 0 THEN lastRun.out.cost = 0
      ELSE LET usage == lastRun.usage
               filled == SumSeq([i \in 1..Len(usage) |-> usage[i].used_for_quantum])
               scan == SumSeq([i \in 1..Len(usage) |->
                                 usage[i].used_for_quantum * usage[i].VC])
           IN /\ filled = Min(lastRun.q, lastRun.totals.t_units)
              /\ \A i \in 1..Len(usage) : \A j \in 1..Len(usage) :
                    (usage[i].VC < usage[j].VC /\ usage[j].used_for_quantum > 0)
                       => usage[i].used_for_quantum = usage[i].backdown_units
              /\ lastRun.out.cost
                    = scan + (lastRun.q - filled) * HighestVC(lastRun.plants)

\* C11 witness: a quantity that ends inside the second of three plants with
\* different rates
C11_Witness ==
    /\ PricedPrefix
    /\ Len(lastRun.plants) = 3
    /\ lastRun.plants[1].VC < lastRun.plants[2].VC
    /\ lastRun.plants[2].VC < lastRun.plants[3].VC
    /\ lastRun.plants[1].backdown_units > 0
    /\ lastRun.q > lastRun.plants[1].backdown_units
    /\ lastRun.q < lastRun.plants[1].backdown_units + lastRun.plants[2].backdown_units
    /\ lastRun.out.cost > lastRun.q * lastRun.plants[1].VC

\* The outcome of one decide_banking call and its inputs
Banked == lastRun.op = "decide_banking" /\ lastRun.in.banked_units > 0
Surplus == Max(lastRun.in.Scheduled_Generation - lastRun.in.Drawl, 0)
MarketRate == Min(lastRun.in.DAM, lastRun.in.RTM)

\* C12: with 0 < surplus < banked_units, balanced = banked_units - surplus is
\* priced through the prefix structure; when balanced exceeds the total
\* backdown units the excess is priced at min(DAM, RTM) and reported as
\* market_purchase.
C12_ExcessAtMarketRate ==
    (Banked /\ 0 < Surplus /\ Surplus < lastRun.in.banked_units) =>
       LET balanced == lastRun.in.banked_units - Surplus
           total == lastRun.totals.t_units
           cached == PrefixEntry(lastRun.in.plants)
       IN IF balanced > total
          THEN /\ lastRun.bank.market_purchase = balanced - total
               /\ lastRun.bank.banking_cost
                     = lastRun.totals.t_cost + (balanced - total) * MarketRate
          ELSE lastRun.bank.banking_cost
                 = calculate_weighted_average_for_quantum_prefix(balanced, cached).cost

\* C13: with surplus = 0 and banked_units > 0 the full banked_units is priced
\* as the partial-surplus branch prices the same quantity over the same
\* plants: the same banking_cost and market_purchase, namely the prefix cost
\* within the total backdown units and total backdown cost
\* + (quantity - total) x min(DAM, RTM) beyond it.
C13_SamePolicyAsPartialSurplus ==
    (Banked /\ Surplus = 0) =>
       LET q == lastRun.in.banked_units
           total == lastRun.totals.t_units
           cached == PrefixEntry(lastRun.in.plants)
           \* the partial-surplus branch pricing q: a surplus of 300 on top of q
           partial == decide_banking(lastRun.ts, q + 300, lastRun.in.Drawl + 300,
                                     lastRun.in.Drawl, lastRun.totals.wav,
                                     lastRun.in.DAM, lastRun.in.RTM, total,
                                     lastRun.totals.t_cost,
                                     lastRun.units_available_before, cached)
       IN /\ lastRun.bank.banking_cost = partial.banking_cost
          /\ lastRun.bank.market_purchase = partial.market_purchase
          /\ IF q <= total
             THEN /\ lastRun.bank.banking_cost
                       = calculate_weighted_average_for_quantum_prefix(q, cached).cost
                  /\ lastRun.bank.market_purchase = 0
             ELSE /\ lastRun.bank.banking_cost
                       = lastRun.totals.t_cost + (q - total) * MarketRate
                  /\ lastRun.bank.market_purchase = q - total

\* C14: with surplus >= banked_units > 0 outside both DSM windows,
\* banking_cost is 0, the buffer absorbs min(banked_units, headroom_before),
\* headroom_after (returned and persisted) is headroom_before - absorbed and
\* DSM_units is banked_units - absorbed.
C14_ChargeOutsideWindow ==
    (Banked /\ Surplus >= lastRun.in.banked_units /\ ~in_dsm_window(lastRun.ts)) =>
       LET absorbed == Min(lastRun.in.banked_units, lastRun.units_available_before)
       IN /\ lastRun.bank.banking_cost = 0
          /\ lastRun.bank.units_available_after
                = lastRun.units_available_before - absorbed
          /\ lastRun.bank.DSM_units = lastRun.in.banked_units - absorbed
          /\ DocsAt(Battery_Status, lastRun.ts) # {}
          /\ \A doc \in DocsAt(Battery_Status, lastRun.ts) :
                doc.Units_Available = lastRun.units_available_before - absorbed

\* C14 witness: 1000 units banked against a headroom of 400: 400 absorbed,
\* 600 to DSM
C14_Witness ==
    /\ Banked
    /\ ~in_dsm_window(lastRun.ts)
    /\ lastRun.in.banked_units = 1000
    /\ lastRun.units_available_before = 400
    /\ lastRun.bank.DSM_units = 600
    /\ \E doc \in DocsAt(Battery_Status, lastRun.ts) : doc.Units_Available = 0

\* C15: with surplus >= banked_units > 0 inside a DSM window the whole banked
\* quantity is DSM exposure, banking_cost is 0, the headroom is unchanged and
\* the cycle reported and persisted for the block is USE.
C15_DsmWindowIsUse ==
    (Banked /\ Surplus >= lastRun.in.banked_units /\ in_dsm_window(lastRun.ts)) =>
       /\ lastRun.bank.DSM_units = lastRun.in.banked_units
       /\ lastRun.bank.banking_cost = 0
       /\ lastRun.bank.units_available_after = lastRun.units_available_before
       /\ lastRun.bank.cycle = "USE"
       /\ \A doc \in DocsAt(Battery_Status, lastRun.ts) :
             /\ doc.Units_Available = lastRun.units_available_before
             /\ doc.Cycle = "USE"

\* C16: decide_banking reports and persists CHARGE only when surplus >=
\* banked_units > 0, the block is outside both DSM windows and
\* headroom_before > 0; with no headroom the cycle is not CHARGE.
C16_ChargeOnlyWithHeadroom ==
    (/\ lastRun.op = "decide_banking"
     /\ \/ lastRun.bank.cycle = "CHARGE"
        \/ \E doc \in DocsAt(Battery_Status, lastRun.ts) : doc.Cycle = "CHARGE") =>
       /\ lastRun.in.banked_units > 0
       /\ Surplus >= lastRun.in.banked_units
       /\ ~in_dsm_window(lastRun.ts)
       /\ lastRun.units_available_before > 0

\* C17: compute_adjustment with adjusted_units > 0, h being the headroom it
\* starts from.  Inside a DSM window battery_used = min(adjusted_units,
\* capacity - h) is charged at the fixed rate, the headroom returned and
\* persisted is h + battery_used <= capacity, balance_units = adjusted_units
\* - battery_used is priced at highest_rate = max(MOD, DAM, RTM), cycle USE.
\* Outside the windows the whole quantity is priced at highest_rate, the
\* headroom stays h and the cycle is NO_CHARGE.
C17_AdjustmentRule ==
    (Ran /\ lastRun.in.adjusted_units > 0) =>
       LET h == lastRun.adj.units_read
           a == lastRun.in.adjusted_units
           adj == lastRun.adj
           highest == Max(lastRun.result.MOD_rate, Max(lastRun.in.DAM, lastRun.in.RTM))
           used == IF in_dsm_window(lastRun.ts) THEN Min(a, TOTAL_CAPACITY - h) ELSE 0
       IN /\ adj.highest_rate = highest
          /\ adj.battery_used = used
          /\ adj.units_available_after = h + used
          /\ h + used <= TOTAL_CAPACITY
          /\ DocsAt(Battery_Status, lastRun.ts) # {}
          /\ IF in_dsm_window(lastRun.ts)
             THEN /\ adj.balance_units = a - used
                  /\ adj.adjustment_charges
                        = used * BATTERY_CHARGE_RATE + (a - used) * highest
                  /\ \A doc \in DocsAt(Battery_Status, lastRun.ts) :
                        doc.Units_Available = h + used /\ doc.Cycle = "USE"
             ELSE /\ adj.adjustment_charges = a * highest
                  /\ \A doc \in DocsAt(Battery_Status, lastRun.ts) :
                        doc.Units_Available = h /\ doc.Cycle = "NO_CHARGE"

\* C17 witness: 1200 units adjusted at 09:00 from a headroom 1000 below the
\* capacity: 1000 discharged, 200 priced at the highest rate
C17_Witness ==
    /\ Ran
    /\ in_dsm_window(lastRun.ts)
    /\ lastRun.in.adjusted_units = 1200
    /\ lastRun.adj.units_read = TOTAL_CAPACITY - 1000
    /\ lastRun.adj.battery_used = 1000
    /\ lastRun.adj.adjustment_charges = 1000 * BATTERY_CHARGE_RATE + 200 * 500

\* C18: in_dsm_window(ts) is true exactly when the time of day of ts lies in
\* [09:00, 11:00) or [18:00, 20:00): 08:59 and 11:00 are outside, 09:00 and
\* 10:59 inside, 18:00 inside and 20:00 outside.
HourOf(ts) == (ts % DayMinutes) \div 60
MinuteOf(ts) == ts % 60

C18_HalfOpenWindows ==
    lastRun.op = "in_dsm_window" =>
       LET hh == HourOf(lastRun.ts)
           mm == MinuteOf(lastRun.ts)
       IN /\ lastRun.out = (hh \in {9, 10} \/ hh \in {18, 19})
          /\ (hh = 8 /\ mm = 59) => ~lastRun.out
          /\ (hh = 9 /\ mm = 0) => lastRun.out
          /\ (hh = 10 /\ mm = 59) => lastRun.out
          /\ (hh = 11 /\ mm = 0) => ~lastRun.out
          /\ (hh = 18 /\ mm = 0) => lastRun.out
          /\ (hh = 20 /\ mm = 0) => ~lastRun.out

\* C18 witness: 11:00 of the second day has been classified
C18_Witness ==
    /\ lastRun.op = "in_dsm_window"
    /\ lastRun.ts = DayMinutes + 11 * 60
    /\ lastRun.out = FALSE

C20_MissingRecordIsNotFound ==
    (/\ lastRun.op = "calculate_consolidated"
     /\ \/ lastRun.in.plants = <<>>
        \/ lastRun.in.absent # {}
        \/ DocsBefore(Battery_Status, lastRun.ts) = {}) =>
       /\ lastRun.status = 404
       /\ "result" \notin DOMAIN lastRun

\* C21: when the settlement has been computed and the upsert into the result
\* store fails, the response has status 207 and carries a warning together
\* with every computed result field; nothing computed is dropped.
C21_PartialSuccessKeepsResult ==
    (lastRun.op = "calculate_consolidated" /\ lastRun.status = 207) =>
       /\ lastRun.warning
       /\ lastRun.result
            = ConsolidatedResult(lastRun.ts, lastRun.in,
                                 compute_totals(Reverse(lastRun.in.plants),
                                                lastRun.in.Last_Price),
                                 lastRun.units_left_to_charge, lastRun.bank, lastRun.adj)

\* C21 witness: a run that charged the buffer and whose result was never
\* stored answers 207
C21_Witness ==
    /\ lastRun.op = "calculate_consolidated"
    /\ lastRun.status = 207
    /\ lastRun.bank.cycle = "CHARGE"
    /\ DocsAt(Battery_Status, lastRun.ts) # {}
    /\ DocsAt(bank_adj_coll, lastRun.ts) = {}

\* C22: every numeric input that reaches decide_banking and
\* compute_adjustment is a real number: a stored value that is NaN or
\* missing arrives as 0.0, so that no NaN reaches a computed field.
C22_NoNaNArrives ==
    lastRun.op = "fetch" =>
       \A f \in DOMAIN lastRun.arrived :
          /\ lastRun.arrived[f].kind = "num"
          /\ lastRun.stored[f] \in {NaN, Missing} => lastRun.arrived[f] = Num(0)

\* The plants of an _allocate_generation call that have capacity, cheapest
\* first, and the demand that remains before the i-th of them
Allocated == lastRun.op = "_allocate_generation" /\ lastRun.net_demand > 0
WithCapacity == SelectSeq(SortedByCost(lastRun.plants), LAMBDA p : p.Max_Power > 0)
RemainingBefore(i) ==
    lastRun.net_demand - SumSeq([j \in 1..(i - 1) |-> WithCapacity[j].Max_Power])
CrossingPlants ==
    {i \in 1..Len(WithCapacity) : WithCapacity[i].Max_Power >= RemainingBefore(i)}

C26_ReverseTrim ==
    (Allocated /\ \A i \in 1..Len(lastRun.plants) :
                     lastRun.plants[i].Min_Power <= lastRun.plants[i].Max_Power) =>
       LET walk == lastRun.walk
           allocation == lastRun.allocation
           overshoot == TotalAllocated(walk) - lastRun.net_demand
           reducible == SumSeq([i \in 1..Len(walk) |->
                                  walk[i].allocated_gen - walk[i].min_gen])
           total_max == SumSeq([i \in 1..Len(lastRun.plants) |->
                                  lastRun.plants[i].Max_Power])
       IN /\ Len(allocation) = Len(walk)
          /\ \A i \in 1..Len(allocation) :
                /\ allocation[i].plant_code = walk[i].plant_code
                /\ allocation[i].min_gen <= allocation[i].allocated_gen
                /\ allocation[i].allocated_gen <= allocation[i].max_gen
                /\ allocation[i].allocated_gen <= walk[i].allocated_gen
                /\ allocation[i].allocated_gen < walk[i].allocated_gen =>
                      \A j \in (i + 1)..Len(allocation) :
                         allocation[j].allocated_gen = allocation[j].min_gen
          /\ (total_max >= lastRun.net_demand /\ reducible >= overshoot) =>
                TotalAllocated(allocation) = lastRun.net_demand
          /\ \A i \in 1..Len(lastRun.out.other_plant_data) :
                \E j \in 1..Len(allocation) :
                   /\ lastRun.out.other_plant_data[i].plant_code
                        = allocation[j].plant_code
                   /\ lastRun.out.other_plant_data[i].generated_energy
                        = allocation[j].allocated_gen

\* C26 witness: the crossing plant overshoots at its min_power and cannot be
\* reduced, so the overshoot is taken from the cheaper plant before it
C26_Witness ==
    /\ Allocated
    /\ Len(lastRun.walk) = 2
    /\ TotalAllocated(lastRun.walk) > lastRun.net_demand
    /\ lastRun.allocation[2].allocated_gen = lastRun.allocation[2].min_gen
    /\ lastRun.allocation[2].allocated_gen = lastRun.walk[2].allocated_gen
    /\ lastRun.allocation[1].allocated_gen < lastRun.walk[1].allocated_gen
    /\ TotalAllocated(lastRun.allocation) = lastRun.net_demand

ModRan == lastRun.op = "get_MOD" /\ lastRun.status = 200

LeastRecentlyUsed ==
    CHOOSE k \in lastRun.before :
       \A j \in lastRun.before : lastRun.used_before[k] <= lastRun.used_before[j]

\* C24: after any sequence of _cache_put and _cache_get calls the prefix
\* cache holds at most 256 entries; when a put makes it exceed 256 exactly
\* the entry least recently put or read is evicted and the entry just put is
\* kept; no other call removes an entry.
C24_BoundedLeastRecentlyUsed ==
    /\ Len(prefix_cache) <= _PREFIX_CACHE_MAX
    /\ Cardinality(KeysOf(prefix_cache)) = Len(prefix_cache)
    /\ lastRun.op = "_cache_put" =>
          /\ CacheHas(prefix_cache, lastRun.ts)
          /\ _cache_get_entry(prefix_cache, lastRun.ts) = PutEntry
          /\ IF Cardinality(lastRun.before \cup {lastRun.ts}) > _PREFIX_CACHE_MAX
             THEN KeysOf(prefix_cache)
                    = (lastRun.before \cup {lastRun.ts}) \ {LeastRecentlyUsed}
             ELSE KeysOf(prefix_cache) = lastRun.before \cup {lastRun.ts}
    /\ lastRun.op = "_cache_get" => KeysOf(prefix_cache) = lastRun.before

\* C24 witness: a put overflows the full cache after its oldest key was
\* read, so the key evicted is the second oldest and the oldest is kept
C24_Witness ==
    /\ lastRun.op = "_cache_put"
    /\ Cardinality(lastRun.before) = _PREFIX_CACHE_MAX
    /\ lastRun.ts \notin lastRun.before
    /\ Len(prefix_cache) = _PREFIX_CACHE_MAX
    /\ CacheHas(prefix_cache, CacheKey(1))
    /\ ~CacheHas(prefix_cache, CacheKey(2))
    /\ CacheHas(prefix_cache, lastRun.ts)

\* C27: after a successful consolidated run for block ts the headroom
\* persisted in the buffer-status record of ts equals the
\* battery_units_after_adjustment of the result, so the next block starts
\* from the final headroom reported for ts.
C27_PersistedHeadroomIsReported ==
    Ran =>
       /\ DocsAt(Battery_Status, lastRun.ts) # {}
       /\ \A doc \in DocsAt(Battery_Status, lastRun.ts) :
             doc.Units_Available = lastRun.result.battery_units_after_adjustment

\* C28: a consolidated request that is rejected (400 for a timestamp that
\* is missing or does not parse, 404 for a missing banking, demand-drawl or
\* market-price record) leaves the buffer-status store and the
\* consolidated-result store unchanged.
C28_RejectedRequestWritesNothing ==
    [][(lastRun'.op = "calculate_consolidated" /\ lastRun'.status \in {400, 404})
         => (Battery_Status' = Battery_Status /\ bank_adj_coll' = bank_adj_coll)]_vars

\* C28 witness: a request rejected for a missing demand-drawl record of a
\* block that an earlier request has already settled
C28_Witness ==
    /\ lastRun.op = "calculate_consolidated"
    /\ lastRun.status = 404
    /\ lastRun.in.absent = {"Demand_Drawl"}
    /\ DocsAt(Battery_Status, lastRun.ts) # {}
    /\ DocsAt(bank_adj_coll, lastRun.ts) # {}

\* the records of a store that belong to blocks other than ts
OtherBlocks(coll, ts) == {d \in coll : d.Timestamp # ts}

\* C29: a consolidated run for block ts writes only the buffer-status record
\* and the result record keyed by ts; the records of every other block,
\* later blocks already settled from ts's earlier headroom included, are
\* left unchanged.
C29_OnlyOwnBlockWritten ==
    [][lastRun'.op = "calculate_consolidated" =>
         /\ OtherBlocks(Battery_Status', lastRun'.ts) = OtherBlocks(Battery_Status, lastRun'.ts)
         /\ OtherBlocks(bank_adj_coll', lastRun'.ts) = OtherBlocks(bank_adj_coll, lastRun'.ts)]_vars

\* C29 witness: the first block has been run again and now holds another
\* headroom than the one the second block was settled from; the second
\* block's records are still there
C29_Witness ==
    /\ Ran
    /\ lastRun.ts = FirstBlock
    /\ \E later \in OtherBlocks(Battery_Status, FirstBlock),
          r \in OtherBlocks(bank_adj_coll, FirstBlock),
          doc \in DocsAt(Battery_Status, FirstBlock) :
          /\ later.Timestamp = FirstBlock + BLOCK_MINUTES
          /\ r.Timestamp = FirstBlock + BLOCK_MINUTES
          /\ r.battery_units_before_banking # doc.Units_Available

\* C30: every pricing query of a consolidated run reads the cache entry the
\* same run built from the plant readings it fetched: the plants priced by
\* decide_banking are the plants of the request, most expensive first, and
\* never those an earlier run left in the cache for the same timestamp.
C30_RunPricesItsOwnPlants ==
    Ran =>
       LET priced == lastRun.bank.plants_with_usage
           fetched == Reverse(lastRun.in.plants)
       IN /\ Len(priced) = Len(fetched)
          /\ \A i \in 1..Len(priced) :
                /\ priced[i].Plant_Name = fetched[i].Plant_Name
                /\ priced[i].backdown_units = fetched[i].backdown_units
                /\ priced[i].VC = fetched[i].VC

====
